---- MODULE Spec2Model ----
(***************************************************************************)
(* Speak2SQL: the operation history (src/utils.py, OperationHistory), the  *)
(* execution engine (src/database.py, DatabaseConnection) and the window   *)
(* handlers that drive them (src/ui.py, MainWindow / HistoryDialog).       *)
(*                                                                         *)
(* A Python str is a sequence of one-character strings (an opaque piece of *)
(* text, such as a message, is one element).  A value that may be None is  *)
(* a tagged record: PyNone or PyStr(s).                                    *)
(***************************************************************************)
EXTENDS Integers, Sequences, FiniteSets, TLC

VARIABLES
    history,        \* OperationHistory.history (the entries, when it is a list)
    history_type,   \* the Python type of OperationHistory.history
    current_index,  \* OperationHistory.current_index
    max_history,    \* OperationHistory.max_history
    file,           \* the content of operation_history.json
    connection,     \* DatabaseConnection.connection: "None", "open" or "lost"
    db_committed,   \* the statements whose effect the database holds durably
    db_txn,         \* the statements applied in the connection's open transaction
    calls,          \* the driver calls the last step made, in order
    ret,            \* the outcome of the last call
    pre,            \* history variable: what the last call started from
    args            \* history variable: what the last call was handed

histvars == <<history, history_type, current_index, max_history, file>>

dbvars == <<connection, db_committed, db_txn, calls>>

vars == <<histvars, dbvars, ret, pre, args>>

-----------------------------------------------------------------------------
(* Bounds of the model.                                                    *)

\* max_history ranges over 0..MaxCap in the specifications of the class
MaxCap == 3

\* the longest array the history file holds before the program writes it
MaxFileLen == 3

-----------------------------------------------------------------------------
(* Python values.                                                          *)

PyNone == [py |-> "None"]

PyStr(s) == [py |-> "str", s |-> s]

\* bool(x) of a value that is None or a str
Truthy(x) == x.py = "str" /\ Len(x.s) > 0

-----------------------------------------------------------------------------
(* Python str methods and the two re.sub patterns of validate_sql.         *)

LowerCase == <<"a", "b", "c", "d", "e", "f", "g", "h", "i", "j", "k", "l", "m",
               "n", "o", "p", "q", "r", "s", "t", "u", "v", "w", "x", "y", "z">>

UpperCase == <<"A", "B", "C", "D", "E", "F", "G", "H", "I", "J", "K", "L", "M",
               "N", "O", "P", "Q", "R", "S", "T", "U", "V", "W", "X", "Y", "Z">>

\* the upper-case letter of each lower-case letter
ToUpper ==
    [c \in {LowerCase[i] : i \in 1..Len(LowerCase)} |->
        UpperCase[CHOOSE i \in 1..Len(LowerCase) : LowerCase[i] = c]]

UpperChar(c) == IF c \in DOMAIN ToUpper THEN ToUpper[c] ELSE c

\* str.upper()
Upper(s) == [i \in 1..Len(s) |-> UpperChar(s[i])]

\* the characters str.strip() and str.rstrip() remove
Whitespace == {" ", "\n", "\t", "\r"}

\* the characters query.strip('\'"') removes
Quotes == {"'", "\""}

RECURSIVE LStripChars(_, _)
LStripChars(s, chars) ==
    IF Len(s) > 0 /\ s[1] \in chars THEN LStripChars(Tail(s), chars) ELSE s

RECURSIVE RStripChars(_, _)
RStripChars(s, chars) ==
    IF Len(s) > 0 /\ s[Len(s)] \in chars
    THEN RStripChars(SubSeq(s, 1, Len(s) - 1), chars)
    ELSE s

StripChars(s, chars) == RStripChars(LStripChars(s, chars), chars)

\* str.startswith(p)
StartsWith(s, p) == Len(s) >= Len(p) /\ SubSeq(s, 1, Len(p)) = p

\* str.endswith(p)
EndsWith(s, p) == Len(s) >= Len(p) /\ SubSeq(s, Len(s) - Len(p) + 1, Len(s)) = p

\* the first index >= from at which p occurs in s, 0 when there is none
Find(s, p, from) ==
    LET hits == {i \in from..(Len(s) - Len(p) + 1) : SubSeq(s, i, i + Len(p) - 1) = p}
    IN IF hits = {} THEN 0 ELSE CHOOSE i \in hits : \A j \in hits : i <= j

\* re.sub(r'/\*.*?\*/', '', s, flags=re.DOTALL)
RECURSIVE RemoveBlockComments(_)
RemoveBlockComments(s) ==
    LET open == Find(s, <<"/", "*">>, 1)
        close == IF open = 0 THEN 0 ELSE Find(s, <<"*", "/">>, open + 2)
    IN IF close = 0 THEN s
       ELSE SubSeq(s, 1, open - 1) \o RemoveBlockComments(SubSeq(s, close + 2, Len(s)))

\* re.sub(r'--.*?$', '', s, flags=re.MULTILINE): from -- to the end of the line
RECURSIVE RemoveLineComments(_)
RemoveLineComments(s) ==
    LET start == Find(s, <<"-", "-">>, 1)
        nl == IF start = 0 THEN 0 ELSE Find(s, <<"\n">>, start + 2)
        stop == IF nl = 0 THEN Len(s) + 1 ELSE nl
    IN IF start = 0 THEN s
       ELSE SubSeq(s, 1, start - 1) \o RemoveLineComments(SubSeq(s, stop, Len(s)))

STR_SELECT == <<"S", "E", "L", "E", "C", "T">>

STR_INSERT == <<"I", "N", "S", "E", "R", "T">>

STR_UPDATE == <<"U", "P", "D", "A", "T", "E">>

STR_DELETE == <<"D", "E", "L", "E", "T", "E">>

STR_CREATE == <<"C", "R", "E", "A", "T", "E">>

STR_ALTER == <<"A", "L", "T", "E", "R">>

STR_DROP == <<"D", "R", "O", "P">>

STR_UNKNOWN == <<"U", "N", "K", "N", "O", "W", "N">>

STR_TABLE == <<" ", "T", "A", "B", "L", "E">>

-----------------------------------------------------------------------------
(* DatabaseConnection: the two pure methods.                               *)

\* validate_sql, lines 51-66
validate_sql(query) ==
    LET q1 == StripChars(query, Quotes)
        q2 == IF EndsWith(RStripChars(q1, Whitespace), <<";">>)
              THEN q1
              ELSE RStripChars(q1, Whitespace) \o <<";">>
    IN RemoveLineComments(RemoveBlockComments(q2))

\* a classification of the text as it comes, surrounding whitespace included
detect_operation_type_NoStrip(sql) ==
    LET prefix(u) ==
            IF StartsWith(u, STR_SELECT) THEN STR_SELECT
            ELSE IF StartsWith(u, STR_INSERT) THEN STR_INSERT
            ELSE IF StartsWith(u, STR_UPDATE) THEN STR_UPDATE
            ELSE IF StartsWith(u, STR_DELETE) THEN STR_DELETE
            ELSE IF StartsWith(u, STR_CREATE \o STR_TABLE) THEN STR_CREATE
            ELSE IF StartsWith(u, STR_ALTER \o STR_TABLE) THEN STR_ALTER
            ELSE IF StartsWith(u, STR_DROP \o STR_TABLE) THEN STR_DROP
            ELSE STR_UNKNOWN
    IN prefix(Upper(sql))

\* detect_operation_type, lines 357-383
detect_operation_type(sql) ==
    LET prefix(u) ==
            IF StartsWith(u, STR_SELECT) THEN STR_SELECT
            ELSE IF StartsWith(u, STR_INSERT) THEN STR_INSERT
            ELSE IF StartsWith(u, STR_UPDATE) THEN STR_UPDATE
            ELSE IF StartsWith(u, STR_DELETE) THEN STR_DELETE
            ELSE IF StartsWith(u, STR_CREATE \o STR_TABLE) THEN STR_CREATE
            ELSE IF StartsWith(u, STR_ALTER \o STR_TABLE) THEN STR_ALTER
            ELSE IF StartsWith(u, STR_DROP \o STR_TABLE) THEN STR_DROP
            ELSE STR_UNKNOWN
    IN prefix(Upper(StripChars(sql, Whitespace)))

-----------------------------------------------------------------------------
(* The MySQL session behind DatabaseConnection.connection.                 *)

\* the statements of the model, as the translator hands them over
SQL_SELECT == STR_SELECT \o <<" ", "1", ";">>

SQL_INSERT == STR_INSERT \o <<" ", "I", "N", "T", "O", " ", "t", ";">>

SQL_DELETE == STR_DELETE \o <<" ", "F", "R", "O", "M", " ", "t", ";">>

Statements == {SQL_SELECT, SQL_INSERT, SQL_DELETE}

\* a statement the translator left in quotes and without its terminator
SQL_QUOTED == <<"'">> \o SubSeq(SQL_DELETE, 1, Len(SQL_DELETE) - 1) \o <<"'">>

\* a statement of no kind the program knows, in lower case
SQL_VACUUM == <<"v", "a", "c", "u", "u", "m", ";">>

Letters == {UpperCase[i] : i \in 1..Len(UpperCase)}

\* the leading keyword of a statement, as the server reads it
RECURSIVE LeadingLetters(_)
LeadingLetters(s) ==
    IF Len(s) > 0 /\ s[1] \in Letters
    THEN <<s[1]>> \o LeadingLetters(Tail(s))
    ELSE <<>>

Keyword(sql) == LeadingLetters(Upper(StripChars(sql, Whitespace)))

\* cursor.execute(sql) leaves a result set to fetch
ReturnsRows(sql) == Keyword(sql) = STR_SELECT

\* cursor.execute(sql) changes data in the open transaction
ChangesData(sql) ==
    Keyword(sql) \in {STR_INSERT, STR_UPDATE, STR_DELETE, STR_CREATE, STR_ALTER, STR_DROP}

\* how one driver call can end: it succeeds, the server rejects it with a
\* mysql.connector.Error, or the connection drops under it (the same error
\* class, and is_connected() is False afterwards)
Outcomes == {"ok", "error", "lost"}

\* the rows a result set can hold
RowCounts == {0, 1}

\* cursor.rowcount after a statement that changed data
Rowcount == 1

Call(op, sql, ok) == [op |-> op, sql |-> sql, ok |-> ok]

Db(c, committed, txn) == [connection |-> c, db_committed |-> committed, db_txn |-> txn]

\* a rollback that leaves the open transaction as it is
Rollback_Keep(d) == d

\* connection.rollback()
Rollback(d) == Db(d.connection, d.db_committed, {})

\* a commit that makes nothing durable
Commit_Discard(d) == Db(d.connection, d.db_committed, {})

\* connection.commit()
Commit(d) == Db(d.connection, d.db_committed \cup d.db_txn, {})

\* the session is gone: the server discards its open transaction
Lost(d) == Db("lost", d.db_committed, {})

\* cursor.execute(sql) that succeeded
Executed(d, sql) ==
    IF ChangesData(sql)
    THEN Db(d.connection, d.db_committed, d.db_txn \cup {sql})
    ELSE d

\* is_connected, lines 28-30
is_connected(d) == d.connection = "open"

\* what a method hands back: the session after it, the driver calls it made,
\* and its return value (kind is the Python value or the exception raised)
Outcome(d, made, kind, rows, msg) ==
    [d |-> d, calls |-> made, kind |-> kind, rows |-> rows, msg |-> msg]

\* an allow-list that lets reads through
ALLOWED_WithSelect ==
    {STR_SELECT, STR_INSERT, STR_UPDATE, STR_DELETE, STR_CREATE, STR_ALTER, STR_DROP}

\* the kinds execute_modification lets through, line 274
ALLOWED == {STR_INSERT, STR_UPDATE, STR_DELETE, STR_CREATE, STR_ALTER, STR_DROP}

\* execute_query, lines 32-49: o is how cursor.execute ends, n the rows found
db_execute_query(d, query, o, n) ==
    LET run(q) ==
            IF d.connection = "None"
            THEN Outcome(d, <<>>, "AttributeError", 0, "no attribute 'cursor'")
            ELSE IF d.connection = "lost"
            THEN Outcome(d, <<>>, "None", 0, "connection not available")
            ELSE IF o = "lost"
            THEN Outcome(Lost(d), <<Call("execute", q, FALSE)>>, "None", 0, "lost connection")
            ELSE IF o = "error" \/ ~(ReturnsRows(q) \/ ChangesData(q))
            THEN Outcome(d, <<Call("execute", q, FALSE)>>, "None", 0, "rejected")
            ELSE IF ~ReturnsRows(q)
            THEN Outcome(Executed(d, q),
                         <<Call("execute", q, TRUE), Call("fetchall", q, FALSE)>>,
                         "None", 0, "no result set to fetch from")
            ELSE Outcome(d, <<Call("execute", q, TRUE), Call("fetchall", q, TRUE)>>,
                         "DataFrame", n, "")
    IN run(validate_sql(query))

\* execute_modification, lines 256-297: o is how cursor.execute ends and oc
\* how connection.commit ends
db_execute_modification(d, sql, o, oc) ==
    IF ~is_connected(d)
    THEN Outcome(d, <<>>, "False", 0, "not connected")
    ELSE
      LET run(s, d1) ==
              IF detect_operation_type(s) \notin ALLOWED
              THEN Outcome(d, <<>>, "False", 0, "unsupported operation type")
              ELSE IF o = "lost"
              THEN Outcome(Lost(d), <<Call("execute", s, FALSE)>>, "False", 0,
                           "lost connection")
              ELSE IF o = "error" \/ ~ChangesData(s)
              THEN Outcome(Rollback(d),
                           <<Call("execute", s, FALSE), Call("rollback", <<>>, TRUE)>>,
                           "False", 0, "rejected")
              ELSE IF oc = "lost"
              THEN Outcome(Lost(d1), <<Call("execute", s, TRUE), Call("commit", <<>>, FALSE)>>,
                           "False", 0, "lost connection")
              ELSE IF oc = "error"
              THEN Outcome(Rollback(d1),
                           <<Call("execute", s, TRUE), Call("commit", <<>>, FALSE),
                             Call("rollback", <<>>, TRUE)>>,
                           "False", 0, "commit failed")
              ELSE Outcome(Commit(d1), <<Call("execute", s, TRUE), Call("commit", <<>>, TRUE)>>,
                           "True", Rowcount, "")
          executed(s) == run(s, Executed(d, s))
      IN executed(validate_sql(sql))

\* the session after the statements of l have executed, in order
RECURSIVE ExecutedAll(_, _)
ExecutedAll(d, l) ==
    IF l = <<>> THEN d ELSE ExecutedAll(Executed(d, Head(l)), Tail(l))

\* the position of the first statement of sql_list that fails when the driver
\* fails statement k (k outside 1..Len(sql_list): none), 0 when none fails
FirstFailure(sql_list, k) ==
    LET bad == {i \in 1..Len(sql_list) :
                  i = k \/ ~(ReturnsRows(sql_list[i]) \/ ChangesData(sql_list[i]))}
    IN IF bad = {} THEN 0 ELSE CHOOSE i \in bad : \A j \in bad : i <= j

\* execute_transaction, lines 299-355: the driver fails statement k, or the
\* commit when k = Len(sql_list) + 1, or nothing when k = 0; m is how it fails
db_execute_transaction(d, sql_list, k, m) ==
    IF ~is_connected(d)
    THEN Outcome(d, <<>>, "False", 0, "not connected")
    ELSE IF sql_list = <<>>
    THEN Outcome(d, <<>>, "False", 0, "no statement to execute")
    ELSE
      LET f == FirstFailure(sql_list, k)
          done == IF f = 0 THEN Len(sql_list) ELSE f - 1
          d1 == ExecutedAll(d, SubSeq(sql_list, 1, done))
          executes == [i \in 1..done |-> Call("execute", sql_list[i], TRUE)]
          failed == IF f = 0
                    THEN <<Call("commit", <<>>, FALSE)>>
                    ELSE <<Call("execute", sql_list[f], FALSE)>>
      IN IF f = 0 /\ k # Len(sql_list) + 1
         THEN Outcome(Commit(d1), executes \o <<Call("commit", <<>>, TRUE)>>,
                      "True", Len(sql_list), "")
         ELSE IF m = "lost"
         THEN Outcome(Lost(d1), executes \o failed, "False", 0, "lost connection")
         ELSE Outcome(Rollback(d1), executes \o failed \o <<Call("rollback", <<>>, TRUE)>>,
                      "False", 0, "rejected")

-----------------------------------------------------------------------------
(* OperationHistory: the entry that add_operation builds.                  *)

Operation(timestamp, operation_type, query, natural_query, affected_rows, result, rollback_sql) ==
    [timestamp |-> timestamp,
     operation_type |-> operation_type,
     sql |-> query,
     natural_query |-> natural_query,
     affected_rows |-> affected_rows,
     result |-> result,
     rollback_sql |-> rollback_sql]

\* what datetime.now().strftime(...) may read
Timestamps == {<<"2025-01-01 10:00:00">>}

\* the argument lists add_operation is called with in the specifications of
\* the class: a read, and a write that carries its rollback statement
HistArgs ==
    {[operation_type |-> STR_SELECT, query |-> STR_SELECT \o <<" ", "1">>,
      natural_query |-> <<"q1">>, affected_rows |-> 0,
      result |-> PyNone, rollback_sql |-> PyNone],
     [operation_type |-> STR_INSERT, query |-> STR_INSERT \o <<" ", "t">>,
      natural_query |-> <<"q2">>, affected_rows |-> 1,
      result |-> PyStr(<<"ok">>), rollback_sql |-> PyStr(<<"D", "E", "L", "E", "T", "E", " ", "t">>)]}

HistEntries ==
    {Operation(ts, a.operation_type, a.query, a.natural_query, a.affected_rows,
               a.result, a.rollback_sql) : ts \in Timestamps, a \in HistArgs}

-----------------------------------------------------------------------------
(* json.dump / json.load of the history.                                   *)

JNull == [js |-> "null"]

JString(s) == [js |-> "string", s |-> s]

JNumber(n) == [js |-> "number", n |-> n]

\* a json.dump that writes None as the text "None"
JsonDumpOpt_NoneAsText(x) == IF x.py = "None" THEN JString(<<"None">>) ELSE JString(x.s)

\* json.dump of a value that is None or a str
JsonDumpOpt(x) == IF x.py = "None" THEN JNull ELSE JString(x.s)

\* json.load of a JSON null or string
JsonLoadOpt(j) == IF j.js = "null" THEN PyNone ELSE PyStr(j.s)

\* json.dump of one entry (a dict of str, int and None values)
JsonDumpEntry(e) ==
    [timestamp |-> JString(e.timestamp),
     operation_type |-> JString(e.operation_type),
     sql |-> JString(e.sql),
     natural_query |-> JString(e.natural_query),
     affected_rows |-> JNumber(e.affected_rows),
     result |-> JsonDumpOpt(e.result),
     rollback_sql |-> JsonDumpOpt(e.rollback_sql)]

\* json.load of one object of the array
JsonLoadEntry(j) ==
    [timestamp |-> j.timestamp.s,
     operation_type |-> j.operation_type.s,
     sql |-> j.sql.s,
     natural_query |-> j.natural_query.s,
     affected_rows |-> j.affected_rows.n,
     result |-> JsonLoadOpt(j.result),
     rollback_sql |-> JsonLoadOpt(j.rollback_sql)]

JsonDump(h) == [i \in 1..Len(h) |-> JsonDumpEntry(h[i])]

JsonLoad(items) == [i \in 1..Len(items) |-> JsonLoadEntry(items[i])]

\* The file: missing, not JSON, a JSON array, a JSON number other than 0 (or
\* true), or JSON null (0 and false behave alike).
FileOf(kind, items) == [kind |-> kind, items |-> items]

SeqsUpTo(S, n) == UNION {[1..k -> S] : k \in 0..n}

InitialFiles ==
    {FileOf(k, <<>>) : k \in {"missing", "invalid", "number", "null"}}
    \cup {FileOf("array", JsonDump(h)) : h \in SeqsUpTo(HistEntries, MaxFileLen)}

-----------------------------------------------------------------------------
(* OperationHistory.                                                       *)

Ret(fn, kind, ops) == [fn |-> fn, kind |-> kind, ops |-> ops]

\* a Truncate that keeps the entries after the cursor
Truncate_KeepBranch(h, ci) == h

\* add_operation, lines 78-79: drop the entries after the cursor
Truncate(h, ci) == IF ci < Len(h) - 1 THEN SubSeq(h, 1, ci + 1) ELSE h

\* an Evict that drops the newest entry instead of the oldest
Evict_DropNewest(h, mh) == IF Len(h) > mh THEN SubSeq(h, 1, Len(h) - 1) ELSE h

\* add_operation, lines 96-97: drop the oldest entry when over capacity
Evict(h, mh) == IF Len(h) > mh THEN Tail(h) ELSE h

\* a cursor that is the length instead of the last index
NewIndex_Length(h) == Len(h)

\* add_operation, line 100: the cursor moves to the tail
NewIndex(h) == Len(h) - 1

\* a can_undo that refuses to step back from the first entry
can_undo_Strict == current_index > 0

can_undo == current_index >= 0

\* a can_redo that stops one entry short of the tail
can_redo_Short == current_index < Len(history) - 2

\* len(self.history) raises TypeError unless history is a list
can_redo == current_index < Len(history) - 1

add_operation(a, ts) ==
    IF history_type # "list"
    THEN \* len(self.history) raises TypeError at line 78
         /\ ret' = Ret("add_operation", "TypeError", <<>>)
         /\ UNCHANGED <<history, history_type, current_index, max_history, file>>
    ELSE LET op == Operation(ts, a.operation_type, a.query, a.natural_query,
                             a.affected_rows, a.result, a.rollback_sql)
             h == Evict(Append(Truncate(history, current_index), op), max_history)
         IN /\ history' = h
            /\ current_index' = NewIndex(h)
            /\ ret' = Ret("add_operation", "entry", <<op>>)
            /\ UNCHANGED <<history_type, max_history, file>>

get_previous_operation ==
    IF ~can_undo
    THEN /\ ret' = Ret("get_previous_operation", "None", <<>>)
         /\ UNCHANGED <<history, history_type, current_index, max_history, file>>
    ELSE IF history_type # "list"
    THEN \* self.history[self.current_index] raises TypeError
         /\ ret' = Ret("get_previous_operation", "TypeError", <<>>)
         /\ UNCHANGED <<history, history_type, current_index, max_history, file>>
    ELSE /\ ret' = Ret("get_previous_operation", "entry", <<history[current_index + 1]>>)
         /\ current_index' = current_index - 1
         /\ UNCHANGED <<history, history_type, max_history, file>>

get_next_operation ==
    IF history_type # "list"
    THEN \* can_redo: len(self.history) raises TypeError
         /\ ret' = Ret("get_next_operation", "TypeError", <<>>)
         /\ UNCHANGED <<history, history_type, current_index, max_history, file>>
    ELSE IF ~can_redo
    THEN /\ ret' = Ret("get_next_operation", "None", <<>>)
         /\ UNCHANGED <<history, history_type, current_index, max_history, file>>
    ELSE /\ current_index' = current_index + 1
         /\ ret' = Ret("get_next_operation", "entry", <<history[current_index + 2]>>)
         /\ UNCHANGED <<history, history_type, max_history, file>>

clear_history ==
    /\ history' = <<>>
    /\ history_type' = "list"
    /\ current_index' = -1
    /\ ret' = Ret("clear_history", "None", <<>>)
    /\ UNCHANGED <<max_history, file>>

\* what json.dump(self.history, f) writes
Saved ==
    IF history_type = "list" THEN FileOf("array", JsonDump(history))
    ELSE IF history_type = "NoneType" THEN FileOf("null", <<>>)
    ELSE FileOf("number", <<>>)

save_to_file(io_ok) ==
    IF io_ok
    THEN /\ file' = Saved
         /\ ret' = Ret("save_to_file", "True", <<>>)
         /\ UNCHANGED <<history, history_type, current_index, max_history>>
    ELSE \* open(filename, 'w') raises: except Exception
         /\ ret' = Ret("save_to_file", "False", <<>>)
         /\ UNCHANGED <<history, history_type, current_index, max_history, file>>

\* a load that takes the file's array and leaves the cursor where it was
load_from_file_KeepCursor(io_ok) ==
    IF file.kind = "array" /\ io_ok
    THEN /\ history' = JsonLoad(file.items)
         /\ history_type' = "list"
         /\ ret' = Ret("load_from_file", "True", <<>>)
         /\ UNCHANGED <<current_index, max_history, file>>
    ELSE /\ ret' = Ret("load_from_file", "False", <<>>)
         /\ UNCHANGED <<history, history_type, current_index, max_history, file>>

\* load_from_file, lines 158-171
load_from_file(io_ok) ==
    IF file.kind = "missing" \/ ~io_ok \/ file.kind = "invalid"
    THEN \* FileNotFoundError, an OSError of open, or json.load raising:
         \* nothing was assigned
         /\ ret' = Ret("load_from_file", "False", <<>>)
         /\ UNCHANGED <<history, history_type, current_index, max_history, file>>
    ELSE IF file.kind = "array"
    THEN /\ history' = JsonLoad(file.items)
         /\ history_type' = "list"
         /\ current_index' = (IF Len(file.items) > 0 THEN Len(file.items) - 1 ELSE -1)
         /\ ret' = Ret("load_from_file", "True", <<>>)
         /\ UNCHANGED <<max_history, file>>
    ELSE IF file.kind = "number"
    THEN \* line 162 assigns the number, len() of it raises at line 163
         /\ history' = <<>>
         /\ history_type' = "number"
         /\ ret' = Ret("load_from_file", "False", <<>>)
         /\ UNCHANGED <<current_index, max_history, file>>
    ELSE \* null: line 163 takes the else branch, len() raises at line 164
         /\ history' = <<>>
         /\ history_type' = "NoneType"
         /\ current_index' = -1
         /\ ret' = Ret("load_from_file", "False", <<>>)
         /\ UNCHANGED <<max_history, file>>

-----------------------------------------------------------------------------------------------------------------------------------------------------
(* The class driven through its methods, from OperationHistory(max_history)*)

\* the history variable: the last call, and the log it started from
Snapshot == [fn |-> ret.fn, kind |-> ret.kind, len |-> Len(history), index |-> current_index]

\* the arguments recorded of a call: a statement list and the position at
\* which the driver fails
Args(sql_list, k) == [sql_list |-> sql_list, k |-> k]

NoArgs == Args(<<>>, 0)

\* the history variables after a call
Called(a) == pre' = Snapshot /\ args' = a

InitMemory ==
    /\ history = <<>>
    /\ history_type = "list"
    /\ current_index = -1
    /\ max_history \in 0..MaxCap
    /\ file = FileOf("missing", <<>>)
    /\ connection = "None"
    /\ db_committed = {}
    /\ db_txn = {}
    /\ calls = <<>>
    /\ ret = Ret("__init__", "None", <<>>)
    /\ pre = [fn |-> "", kind |-> "", len |-> 0, index |-> -1]
    /\ args = NoArgs

InitHistory ==
    /\ history = <<>>
    /\ history_type = "list"
    /\ current_index = -1
    /\ max_history \in 0..MaxCap
    /\ file \in InitialFiles
    /\ connection = "None"
    /\ db_committed = {}
    /\ db_txn = {}
    /\ calls = <<>>
    /\ ret = Ret("__init__", "None", <<>>)
    /\ pre = [fn |-> "", kind |-> "", len |-> 0, index |-> -1]
    /\ args = NoArgs

AddOperation ==
    /\ \E a \in HistArgs, ts \in Timestamps : add_operation(a, ts)
    /\ Called(NoArgs)
    /\ UNCHANGED dbvars

GetPreviousOperation == get_previous_operation /\ Called(NoArgs) /\ UNCHANGED dbvars

GetNextOperation == get_next_operation /\ Called(NoArgs) /\ UNCHANGED dbvars

ClearHistory == clear_history /\ Called(NoArgs) /\ UNCHANGED dbvars

SaveToFile ==
    /\ \E io_ok \in BOOLEAN : save_to_file(io_ok)
    /\ Called(NoArgs)
    /\ UNCHANGED dbvars

LoadFromFile ==
    /\ \E io_ok \in BOOLEAN : load_from_file(io_ok)
    /\ Called(NoArgs)
    /\ UNCHANGED dbvars

\* add_operation, undo, redo and clear_history on a fresh OperationHistory
NextMemory ==
    \/ AddOperation
    \/ GetPreviousOperation
    \/ GetNextOperation
    \/ ClearHistory

SpecMemory == InitMemory /\ [][NextMemory]_vars

\* the same with save_to_file and load_from_file, the file being whatever it
\* was before the first save
NextHistory ==
    \/ AddOperation
    \/ GetPreviousOperation
    \/ GetNextOperation
    \/ ClearHistory
    \/ SaveToFile
    \/ LoadFromFile

SpecHistory == InitHistory /\ [][NextHistory]_vars

-----------------------------------------------------------------------------
(* DatabaseConnection driven through its methods, from DatabaseConnection() *)

\* the longest statement list handed to execute_transaction
MaxBatch == 2

\* the statement lists handed to execute_transaction: reads and writes mixed
Batches == SeqsUpTo({SQL_SELECT, SQL_INSERT}, MaxBatch)

\* the ways a failing driver call ends
Failures == Outcomes \ {"ok"}

\* the session of self.connection
Session == Db(connection, db_committed, db_txn)

\* a method of DatabaseConnection returned (or raised) r
Returned(fn, a, r) ==
    /\ connection' = r.d.connection
    /\ db_committed' = r.d.db_committed
    /\ db_txn' = r.d.db_txn
    /\ calls' = r.calls
    /\ ret' = Ret(fn, r.kind, <<[rows |-> r.rows, msg |-> r.msg]>>)
    /\ Called(a)
    /\ UNCHANGED histvars

\* connect, lines 12-26: a new session replaces the one held before
connect(ok) ==
    Returned("connect", NoArgs,
             IF ok
             THEN Outcome(Db("open", db_committed, {}), <<>>, "True", 0, "")
             ELSE Outcome(Session, <<>>, "False", 0, "connection refused"))

\* close, lines 249-254
close ==
    Returned("close", NoArgs,
             IF connection # "None"
             THEN Outcome(Db("None", db_committed, {}), <<>>, "None", 0, "")
             ELSE Outcome(Session, <<>>, "None", 0, ""))

execute_transaction(sql_list, k, m) ==
    Returned("execute_transaction", Args(sql_list, k),
             db_execute_transaction(Session, sql_list, k, m))

InitDb ==
    /\ history = <<>>
    /\ history_type = "list"
    /\ current_index = -1
    /\ max_history = MaxCap
    /\ file = FileOf("missing", <<>>)
    /\ connection = "None"
    /\ db_committed = {}
    /\ db_txn = {}
    /\ calls = <<>>
    /\ ret = Ret("__init__", "None", <<>>)
    /\ pre = [fn |-> "", kind |-> "", len |-> 0, index |-> -1]
    /\ args = NoArgs

Connect == \E ok \in BOOLEAN : connect(ok)

Close == close

\* the server or the network ends the session between two calls
ConnectionLost ==
    /\ connection = "open"
    /\ Returned("", NoArgs, Outcome(Lost(Session), <<>>, "None", 0, ""))

DbExecuteQuery ==
    \E query \in Statements \cup {SQL_QUOTED}, o \in Outcomes, n \in RowCounts :
        Returned("execute_query", Args(<<query>>, 0), db_execute_query(Session, query, o, n))

DbExecuteModification ==
    \E sql \in Statements \cup {SQL_QUOTED, SQL_VACUUM}, o \in Outcomes, oc \in Outcomes :
        Returned("execute_modification", Args(<<sql>>, 0),
                 db_execute_modification(Session, sql, o, oc))

ExecuteTransaction ==
    \E sql_list \in Batches :
        \E k \in 0..(Len(sql_list) + 1) :
            \E m \in IF k = 0 THEN {"error"} ELSE Failures :
                execute_transaction(sql_list, k, m)

NextDb ==
    \/ Connect
    \/ Close
    \/ ConnectionLost
    \/ DbExecuteQuery
    \/ DbExecuteModification
    \/ ExecuteTransaction

SpecDb == InitDb /\ [][NextDb]_vars

-----------------------------------------------------------------------------
(* validate_sql and detect_operation_type applied to texts: the text of    *)
(* args.sql_list[1], then what validate_sql makes of it, then what         *)
(* validate_sql makes of that.                                             *)

\* the longest text over SqlAlphabet
MaxSqlLen == 3

\* how often validate_sql is applied in a row
MaxApply == 2

SqlAlphabet == {"'", "\"", ";", "-", "/", "*", "\n", "a", " "}

SqlTexts == SeqsUpTo(SqlAlphabet, MaxSqlLen)

\* the lower-case letter of each upper-case letter
ToLower ==
    [c \in {UpperCase[i] : i \in 1..Len(UpperCase)} |->
        LowerCase[CHOOSE i \in 1..Len(UpperCase) : UpperCase[i] = c]]

\* a text in lower case
Lowered(s) == [i \in 1..Len(s) |-> IF s[i] \in DOMAIN ToLower THEN ToLower[s[i]] ELSE s[i]]

\* a text with its first letter in upper case and the others in lower case
Capitalized(s) == [i \in 1..Len(s) |-> IF i = 1 THEN s[i] ELSE Lowered(s)[i]]

\* the seven prefixes, and words that are none of them
KindWords ==
    {STR_SELECT, STR_INSERT, STR_UPDATE, STR_DELETE,
     STR_CREATE \o STR_TABLE, STR_ALTER \o STR_TABLE, STR_DROP \o STR_TABLE,
     STR_CREATE, STR_ALTER, STR_DROP,
     STR_CREATE \o <<" ">> \o STR_TABLE,
     STR_DROP \o <<" ", "I", "N", "D", "E", "X">>,
     <<"S", "E", "L", "E", "C">>,
     <<"V", "A", "C", "U", "U", "M">>,
     <<>>}

\* what stands before the word
Leads == {<<>>, <<" ", " ">>, <<"\n", "\t">>, <<"x">>, <<";">>}

\* what stands behind the word
Trails ==
    {<<>>, <<";">>, <<" ", "t", ";">>, <<"X">>,
     <<" ", "*", " ", "f", "r", "o", "m", " ", "t">>, <<" ", "\n">>}

\* texts built around the words, in upper, lower and mixed case
KindTexts ==
    {l \o c \o t : l \in Leads, t \in Trails,
                   c \in UNION {{w, Lowered(w), Capitalized(w)} : w \in KindWords}}

\* the spec's examples
EX_SELECT == <<" ", " ">> \o Lowered(STR_SELECT) \o <<" ", "*", " ", "f", "r", "o", "m", " ", "t">>

EX_DROP == Lowered(STR_DROP \o STR_TABLE) \o <<" ", "t", ";">>

EX_VACUUM == SQL_VACUUM

\* the text the next call is applied to
Text == args.sql_list[Len(args.sql_list)]

\* a pure method returned the text r
Computed(fn, a, r) ==
    /\ ret' = Ret(fn, "str", <<r>>)
    /\ Called(a)
    /\ UNCHANGED <<histvars, dbvars>>

InitSql ==
    /\ history = <<>>
    /\ history_type = "list"
    /\ current_index = -1
    /\ max_history = MaxCap
    /\ file = FileOf("missing", <<>>)
    /\ connection = "None"
    /\ db_committed = {}
    /\ db_txn = {}
    /\ calls = <<>>
    /\ ret = Ret("__init__", "None", <<>>)
    /\ pre = [fn |-> "", kind |-> "", len |-> 0, index |-> -1]
    /\ args \in {Args(<<x>>, 0) : x \in SqlTexts \cup KindTexts}

\* query = self.validate_sql(query), on the text or on its own result
ValidateSql ==
    /\ args.k < MaxApply
    /\ Computed("validate_sql", Args(Append(args.sql_list, validate_sql(Text)), args.k + 1),
                validate_sql(Text))

\* operation_type = self.detect_operation_type(sql)
DetectOperationType ==
    Computed("detect_operation_type", args, detect_operation_type(Text))

NextSql ==
    \/ ValidateSql
    \/ DetectOperationType

SpecSql == InitSql /\ [][NextSql]_vars

-----------------------------------------------------------------------------
(* OpenAIHandler: what natural_to_sql makes of the model's reply.          *)

STR_SHOW == <<"S", "H", "O", "W">>

STR_USE == <<"U", "S", "E">>

\* the alternatives of the pattern of line 228
KEYWORDS ==
    {STR_SELECT, STR_INSERT, STR_UPDATE, STR_DELETE, STR_CREATE, STR_ALTER, STR_DROP,
     STR_SHOW, STR_USE}

\* the opening and the closing tag of each pattern of lines 190-195, in the
\* order the patterns are applied
THINK_TAGS ==
    <<<<<<"<", "T", "H", "I", "N", "K", ">">>,
       <<"<", "/", "T", "H", "I", "N", "K", ">">>>>,
      <<<<"<", "T", "H", "I", "N", "K", "I", "N", "G", ">">>,
        <<"<", "/", "T", "H", "I", "N", "K", "I", "N", "G", ">">>>>,
      <<<<"<", "T", "H", "O", "U", "G", "H", "T", "S", ">">>,
        <<"<", "/", "T", "H", "O", "U", "G", "H", "T", "S", ">">>>>,
      <<<<"[", "T", "H", "I", "N", "K", "I", "N", "G", "]">>,
        <<"[", "/", "T", "H", "I", "N", "K", "I", "N", "G", "]">>>>>>

\* the grave accent (U+0060), which no string of this language can hold
GRAVE == "grave"

\* the mark of a markdown code fence
TICKS == <<GRAVE, GRAVE, GRAVE>>

WORD_SQL == <<"S", "Q", "L">>

\* re.sub(opening + '.*?' + closing, '', s, flags=re.DOTALL | re.IGNORECASE),
\* opening and closing in upper case
RECURSIVE RemoveTagged(_, _, _)
RemoveTagged(s, opening, closing) ==
    LET cut(a, b) ==
            IF b = 0 THEN s
            ELSE SubSeq(s, 1, a - 1)
                 \o RemoveTagged(SubSeq(s, b + Len(closing), Len(s)), opening, closing)
        closed(u, a) == cut(a, IF a = 0 THEN 0 ELSE Find(u, closing, a + Len(opening)))
        opened(u) == closed(u, Find(u, opening, 1))
    IN opened(Upper(s))

\* the four substitutions of lines 197-198 (and of lines 212-221)
RECURSIVE RemoveTags(_, _)
RemoveTags(s, tags) ==
    IF tags = <<>> THEN s
    ELSE RemoveTags(RemoveTagged(s, tags[1][1], tags[1][2]), Tail(tags))

\* _preprocess_thinking_tags, lines 184-200, on a str
preprocess_thinking_tags(content) ==
    IF content = <<>> THEN content ELSE RemoveTags(content, THINK_TAGS)

\* re.sub of the pattern of line 224 (the fence mark, \s*, the word, \s*, with
\* re.IGNORECASE), word in upper case: '^' matches at the start of the text only
RemoveFenceOpen(s, word) ==
    LET named(rest) ==
            IF StartsWith(Upper(rest), word)
            THEN LStripChars(SubSeq(rest, Len(word) + 1, Len(rest)), Whitespace)
            ELSE s
    IN IF StartsWith(s, TICKS)
       THEN named(LStripChars(SubSeq(s, Len(TICKS) + 1, Len(s)), Whitespace))
       ELSE s

\* re.sub of the pattern of line 225: the first fence mark that only white
\* space follows
RemoveFenceClose(s) ==
    LET hits == {i \in 1..(Len(s) - 2) :
                    /\ SubSeq(s, i, i + 2) = TICKS
                    /\ \A j \in (i + 3)..Len(s) : s[j] \in Whitespace}
    IN IF hits = {} THEN s
       ELSE SubSeq(s, 1, (CHOOSE i \in hits : \A j \in hits : i <= j) - 1)

\* re.sub(r'^.*?(SELECT|...|USE)', r'\1', s, flags=re.IGNORECASE): '.' does
\* not match a newline and '^' matches at the start of the text only, so
\* the keyword is looked for in the first line
KeepFromKeyword(s) ==
    LET at(u) ==
            {i \in 1..Len(u) :
                /\ \A j \in 1..(i - 1) : u[j] # "\n"
                /\ \E k \in KEYWORDS : StartsWith(SubSeq(u, i, Len(u)), k)}
        kept(hits) ==
            IF hits = {} THEN s
            ELSE SubSeq(s, CHOOSE i \in hits : \A j \in hits : i <= j, Len(s))
    IN kept(at(Upper(s)))

\* sql.split(';')[0] + ';', line 231
FirstStatement(s) ==
    LET semi == Find(s, <<";">>, 1)
    IN (IF semi = 0 THEN s ELSE SubSeq(s, 1, semi - 1)) \o <<";">>

\* clean_sql, lines 202-234, on a str
clean_sql(sql) ==
    IF sql = <<>> THEN PyNone
    ELSE PyStr(FirstStatement(KeepFromKeyword(RemoveFenceClose(
                 RemoveFenceOpen(RemoveTags(sql, THINK_TAGS), WORD_SQL)))))

\* _process_response, lines 130-182, on the reply of the ollama API: the
\* content of the message, or None when it is empty
process_response(response) ==
    LET content == StripChars(response, Whitespace)
    IN IF content = <<>> THEN PyNone ELSE PyStr(preprocess_thinking_tags(content))

\* natural_to_sql, lines 57-128: response is the text of the model's reply,
\* or None when the request raised
natural_to_sql(response) ==
    LET cleaned(sql) == IF ~Truthy(sql) THEN PyNone ELSE clean_sql(sql.s)
    IN IF response = PyNone THEN PyNone ELSE cleaned(process_response(response.s))

\* what the model may put in front of its answer: nothing, reasoning in each
\* of the four notations, reasoning that holds a keyword, an unclosed tag
Thoughts ==
    {<<>>,
     <<"<", "t", "h", "i", "n", "k", ">", "r", "<", "/", "t", "h", "i", "n", "k", ">">>,
     <<"<", "T", "H", "I", "N", "K", "I", "N", "G", ">", "a", "\n", "b", "<", "/", "T", "h", "i", "n", "k", "i", "n", "g", ">">>,
     <<"<", "t", "h", "o", "u", "g", "h", "t", "s", ">", "d", "r", "o", "p", "<", "/", "t", "h", "o", "u", "g", "h", "t", "s", ">">>,
     <<"[", "t", "h", "i", "n", "k", "i", "n", "g", "]", "r", "[", "/", "t", "h", "i", "n", "k", "i", "n", "g", "]">>,
     <<"<", "t", "h", "i", "n", "k", ">", "r">>}

\* what separates the reasoning from the answer
Gaps == {<<>>, <<"\n">>}

\* the opening of a markdown fence
FenceOpens == {<<>>, TICKS \o <<"s", "q", "l", "\n">>, TICKS \o <<" ", "S", "Q", "L", " ">>}

\* words of explanation before the statement, on its line or on the line before
Explanations == {<<>>, <<"H", "e", "r", "e", ":", " ">>, <<"H", "e", "r", "e", ":", "\n">>}

\* the answer: a statement with or without ';', two statements, a refusal, a
\* statement that starts with none of the keywords, nothing
Answers ==
    {<<"S", "E", "L", "E", "C", "T", " ", "1", ";">>,
     <<"s", "e", "l", "e", "c", "t", " ", "1">>,
     <<"S", "E", "L", "E", "C", "T", " ", "1", ";", " ", "D", "R", "O", "P", " ", "t", ";">>,
     <<"n", "o", ".">>,
     <<"T", "A", "B", "L", "E", " ", "t", ";">>,
     <<>>,
     <<"s", "h", "o", "w", " ", "t", "a", "b", "l", "e", "s">>}

\* the closing of a markdown fence
FenceCloses == {<<>>, <<"\n">> \o TICKS, <<"\n">> \o TICKS \o <<"\n">>}

\* replies of the model on the read path
ReadReplies ==
    {t \o g \o f \o x \o a \o c :
        t \in Thoughts, g \in Gaps, f \in FenceOpens, x \in Explanations, a \in Answers,
        c \in FenceCloses}

\* the reply of the spec's example
EX_REPLY ==
    <<"<", "t", "h", "i", "n", "k", ">", "r", "e", "a", "s", "o", "n", "i", "n", "g", "<", "/", "t", "h", "i", "n", "k", ">">> \o TICKS \o <<"s", "q", "l", "\n", "S", "E", "L", "E", "C", "T", " ", "1", ";", "\n">>
    \o TICKS

-----------------------------------------------------------------------------
(* OpenAIHandler: what natural_to_modify_sql makes of the model's reply.   *)
(* json_loads reads the JSON texts the replies of the model are made of:   *)
(* an object or an array of strings, numbers and nulls, or one of these    *)
(* alone, strings without escapes and numbers without sign or fraction.    *)

JArray(items) == [js |-> "array", items |-> items]

JObject(fields) == [js |-> "object", fields |-> fields]

\* json.loads raised JSONDecodeError
JInvalid == [js |-> "invalid"]

Digits == <<"0", "1", "2", "3", "4", "5", "6", "7", "8", "9">>

STR_NULL == <<"n", "u", "l", "l">>

\* the index of the first character at or behind i that is no white space
RECURSIVE SkipSpace(_, _)
SkipSpace(s, i) == IF i <= Len(s) /\ s[i] \in Whitespace THEN SkipSpace(s, i + 1) ELSE i

\* what the scanner found: a value and the index behind it, or nothing
Parsed(ok, value, next) == [ok |-> ok, value |-> value, next |-> next]

NoParse == Parsed(FALSE, JNull, 0)

\* a string that starts at i: up to the next quote, no line break in it
ScanString(s, i) ==
    LET text(last) ==
            IF last = 0 \/ \E j \in (i + 1)..(last - 1) : s[j] \in {"\n", "\t", "\r"}
            THEN NoParse
            ELSE Parsed(TRUE, JString(SubSeq(s, i + 1, last - 1)), last + 1)
    IN IF i > Len(s) \/ s[i] # "\"" THEN NoParse ELSE text(Find(s, <<"\"">>, i + 1))

\* the number the digits of s stand for
RECURSIVE ValueOf(_)
ValueOf(s) ==
    IF s = <<>> THEN 0
    ELSE 10 * ValueOf(SubSeq(s, 1, Len(s) - 1))
         + (CHOOSE n \in 0..9 : Digits[n + 1] = s[Len(s)])

\* the index behind the digits that start at i
RECURSIVE SkipDigits(_, _)
SkipDigits(s, i) ==
    IF i <= Len(s) /\ s[i] \in {Digits[n] : n \in 1..10} THEN SkipDigits(s, i + 1) ELSE i

\* a number that starts at i: digits, and no zero in front of another digit
ScanNumber(s, i) ==
    LET digits(next) ==
            IF next = i \/ (s[i] = "0" /\ next > i + 1) THEN NoParse
            ELSE Parsed(TRUE, JNumber(ValueOf(SubSeq(s, i, next - 1))), next)
    IN digits(SkipDigits(s, i))

\* a string, null or a number that starts at i
ScanScalar(s, i) ==
    IF i > Len(s) THEN NoParse
    ELSE IF s[i] = "\"" THEN ScanString(s, i)
    ELSE IF StartsWith(SubSeq(s, i, Len(s)), STR_NULL) THEN Parsed(TRUE, JNull, i + 4)
    ELSE ScanNumber(s, i)

\* fields with the value of key set to value
WithField(fields, key, value) ==
    [k \in DOMAIN fields \cup {key} |-> IF k = key THEN value ELSE fields[k]]

\* the members of an object from i on, behind '{' or ',': fields holds the
\* members read so far, a key that comes twice keeps its last value
RECURSIVE ScanMembers(_, _, _)
ScanMembers(s, i, fields) ==
    LET ended(more, at) ==
            IF at > Len(s) THEN NoParse
            ELSE IF s[at] = "}" THEN Parsed(TRUE, JObject(more), at + 1)
            ELSE IF s[at] = "," THEN ScanMembers(s, SkipSpace(s, at + 1), more)
            ELSE NoParse
        valued(key, val) ==
            IF ~val.ok THEN NoParse
            ELSE ended(WithField(fields, key.value.s, val.value), SkipSpace(s, val.next))
        keyed(key, colon) ==
            IF colon > Len(s) \/ s[colon] # ":" THEN NoParse
            ELSE valued(key, ScanScalar(s, SkipSpace(s, colon + 1)))
        named(key) == IF ~key.ok THEN NoParse ELSE keyed(key, SkipSpace(s, key.next))
    IN named(ScanString(s, i))

\* the items of an array from i on, behind '[' or ','
RECURSIVE ScanItems(_, _, _)
ScanItems(s, i, items) ==
    LET ended(more, at) ==
            IF at > Len(s) THEN NoParse
            ELSE IF s[at] = "]" THEN Parsed(TRUE, JArray(more), at + 1)
            ELSE IF s[at] = "," THEN ScanItems(s, SkipSpace(s, at + 1), more)
            ELSE NoParse
        valued(val) ==
            IF ~val.ok THEN NoParse
            ELSE ended(Append(items, val.value), SkipSpace(s, val.next))
    IN valued(ScanScalar(s, i))

\* the value that starts at i
ScanValue(s, i) ==
    LET first(at, ch, empty, rest) ==
            IF at <= Len(s) /\ s[at] = ch THEN Parsed(TRUE, empty, at + 1) ELSE rest
    IN IF i > Len(s) THEN NoParse
       ELSE IF s[i] = "{"
       THEN first(SkipSpace(s, i + 1), "}", JObject([k \in {} |-> JNull]),
                  ScanMembers(s, SkipSpace(s, i + 1), [k \in {} |-> JNull]))
       ELSE IF s[i] = "["
       THEN first(SkipSpace(s, i + 1), "]", JArray(<<>>),
                  ScanItems(s, SkipSpace(s, i + 1), <<>>))
       ELSE ScanScalar(s, i)

\* json.loads(s): the value the whole of s stands for
json_loads(s) ==
    LET whole(v) == IF v.ok /\ SkipSpace(s, v.next) > Len(s) THEN v.value ELSE JInvalid
    IN whole(ScanValue(s, SkipSpace(s, 1)))

\* the keys of the dict MainWindow reads
KEY_OPERATION_TYPE ==
    <<"o", "p", "e", "r", "a", "t", "i", "o", "n", "_", "t", "y", "p", "e">>

KEY_SQL == <<"s", "q", "l">>

KEY_ROLLBACK_SQL ==
    <<"r", "o", "l", "l", "b", "a", "c", "k", "_", "s", "q", "l">>

WORD_JSON == <<"J", "S", "O", "N">>

\* required_fields, line 337
required_fields == <<KEY_OPERATION_TYPE, KEY_SQL>>

\* 'field in result' for what json.loads returned: a key of a dict, an item
\* of a list, a part of a str
Holds(result, field) ==
    IF result.js = "object" THEN field \in DOMAIN result.fields
    ELSE IF result.js = "array" THEN \E i \in 1..Len(result.items) : result.items[i] = JString(field)
    ELSE Find(result.s, field, 1) # 0

\* the Python value of a JSON value
PyOf(j) ==
    IF j.js = "string" THEN PyStr(j.s)
    ELSE IF j.js = "null" THEN PyNone
    ELSE [py |-> "int", n |-> j.n]

\* lines 345-348: the quotes around the statement go, a ';' is appended
\* unless the statement ends with one
Terminated(sql) ==
    LET closed(s) ==
            IF EndsWith(RStripChars(s, Whitespace), <<";">>) THEN s
            ELSE RStripChars(s, Whitespace) \o <<";">>
    IN closed(StripChars(sql, Quotes))

\* sql_result.get(key, ''), lines 645-648
Get(fields, key) == IF key \in DOMAIN fields THEN PyOf(fields[key]) ELSE PyStr(<<>>)

\* the dict natural_to_modify_sql returns, by the keys MainWindow reads
Descriptor(fields) ==
    [operation_type |-> Get(fields, KEY_OPERATION_TYPE),
     sql |-> Terminated(fields[KEY_SQL].s),
     rollback_sql |-> Get(fields, KEY_ROLLBACK_SQL)]

\* a natural_to_modify_sql that asks for the statement only
natural_to_modify_sql_SqlOnly(response) ==
    LET parsed(result) ==
            IF result.js # "object" THEN PyNone
            ELSE IF KEY_SQL \notin DOMAIN result.fields THEN PyNone
            ELSE IF result.fields[KEY_SQL].js # "string" THEN PyNone
            ELSE Descriptor(result.fields)
        content(c) ==
            IF ~Truthy(c) THEN PyNone
            ELSE parsed(json_loads(StripChars(RemoveFenceClose(RemoveFenceOpen(
                            preprocess_thinking_tags(c.s), WORD_JSON)), Whitespace)))
    IN IF response = PyNone THEN PyNone ELSE content(process_response(response.s))

\* natural_to_modify_sql, lines 236-363: response is the text of the
\* model's reply, or None when the request raised
natural_to_modify_sql(response) ==
    LET parsed(result) ==
            IF result.js = "invalid" THEN PyNone
            ELSE IF result.js \in {"number", "null"} THEN PyNone
            ELSE IF \E n \in 1..Len(required_fields) : ~Holds(result, required_fields[n])
            THEN PyNone
            ELSE IF result.js # "object" THEN PyNone
            ELSE IF result.fields[KEY_SQL].js # "string" THEN PyNone
            ELSE Descriptor(result.fields)
        content(c) ==
            IF ~Truthy(c) THEN PyNone
            ELSE parsed(json_loads(StripChars(RemoveFenceClose(RemoveFenceOpen(
                            preprocess_thinking_tags(c.s), WORD_JSON)), Whitespace)))
    IN IF response = PyNone THEN PyNone ELSE content(process_response(response.s))

\* the members a reply may give for operation_type: none, a kind in upper or
\* lower case, a read, null
TypeMembers ==
    {<<>>,
     <<"\"", "o", "p", "e", "r", "a", "t", "i", "o", "n", "_", "t", "y", "p", "e", "\"", ":", " ", "\"", "I", "N", "S", "E", "R", "T", "\"">>,
     <<"\"", "o", "p", "e", "r", "a", "t", "i", "o", "n", "_", "t", "y", "p", "e", "\"", ":", " ", "\"", "d", "e", "l", "e", "t", "e", "\"">>,
     <<"\"", "o", "p", "e", "r", "a", "t", "i", "o", "n", "_", "t", "y", "p", "e", "\"", ":", " ", "\"", "S", "E", "L", "E", "C", "T", "\"">>,
     <<"\"", "o", "p", "e", "r", "a", "t", "i", "o", "n", "_", "t", "y", "p", "e", "\"", ":", " ", "n", "u", "l", "l">>}

\* the members a reply may give for sql: none, a statement without ';', a
\* statement in quotes, null, a number
SqlMembers ==
    {<<>>,
     <<"\"", "s", "q", "l", "\"", ":", " ", "\"", "I", "N", "S", "E", "R", "T", " ", "I", "N", "T", "O", " ", "t", "\"">>,
     <<"\"", "s", "q", "l", "\"", ":", " ", "\"", "'", "D", "E", "L", "E", "T", "E", " ", "F", "R", "O", "M", " ", "t", ";", "'", "\"">>,
     <<"\"", "s", "q", "l", "\"", ":", " ", "n", "u", "l", "l">>,
     <<"\"", "s", "q", "l", "\"", ":", " ", "5">>}

\* the members a reply may give for rollback_sql: none, a statement
RollbackMembers ==
    {<<>>,
     <<"\"", "r", "o", "l", "l", "b", "a", "c", "k", "_", "s", "q", "l", "\"", ":", " ", "\"", "D", "E", "L", "E", "T", "E", " ", "F", "R", "O", "M", " ", "t", ";", "\"">>}

\* the members of ms one after the other, with ', ' between them
RECURSIVE Joined(_)
Joined(ms) ==
    IF ms = <<>> THEN <<>>
    ELSE IF Len(ms) = 1 THEN ms[1]
    ELSE ms[1] \o <<",", " ">> \o Joined(Tail(ms))

\* the object with the members that are given
ObjectText(t, q, r) ==
    <<"{">> \o Joined(SelectSeq(<<t, q, r>>, LAMBDA m : m # <<>>)) \o <<"}">>

\* what the model may answer on the write path: an object, or a list, a
\* string, a number, null, a cut-off object, words, nothing
WriteAnswers ==
    {ObjectText(t, q, r) : t \in TypeMembers, q \in SqlMembers, r \in RollbackMembers}
    \cup {<<"[", "\"", "o", "p", "e", "r", "a", "t", "i", "o", "n", "_", "t", "y", "p", "e", "\"", ",", " ", "\"", "s", "q", "l", "\"", "]">>,
     <<"\"", "o", "p", "e", "r", "a", "t", "i", "o", "n", "_", "t", "y", "p", "e", " ", "s", "q", "l", "\"">>,
     <<"5">>,
     <<"n", "u", "l", "l">>,
     <<"{", "\"", "s", "q", "l", "\"", ":", " ", "\"", "I", "N", "S", "E", "R", "T">>,
     <<"S", "o", "r", "r", "y", ".">>,
     <<>>}

\* replies of the model on the write path
WriteReplies ==
    {t \o g \o f[1] \o a \o f[2] :
        t \in {<<>>, <<"<", "t", "h", "i", "n", "k", ">", "r", "<", "/", "t", "h", "i", "n", "k", ">">>},
        g \in Gaps,
        f \in {<<<<>>, <<>>>>, <<TICKS \o <<"j", "s", "o", "n", "\n">>, <<"\n">> \o TICKS>>},
        a \in WriteAnswers}

-----------------------------------------------------------------------------
(* MainWindow and HistoryDialog: the pieces the handlers are made of.      *)

\* self.history as a handler passes it along
Hist(h, ci) == [history |-> h, current_index |-> ci]

\* an add_operation that puts the new entry in front of the others
added_InFront(hs, op) ==
    Hist(<<op>> \o hs.history, hs.current_index + 1)

\* add_operation as a function of the log, lines 66-103
added(hs, op) ==
    LET h == Evict(Append(Truncate(hs.history, hs.current_index), op), max_history)
    IN Hist(h, NewIndex(h))

\* what a handler leaves behind: the log, the session, the driver calls it
\* made, the history file and the last thing it showed
UiOut(hs, d, made, f, shown) ==
    [hs |-> hs, d |-> d, calls |-> made, file |-> f, shown |-> shown]

\* the natural-language text of a request
NQ == <<"q">>

\* str(n) for the row counts of the model
Str(n) == <<"0", "1", "2", "3", "4", "5", "6", "7", "8", "9">>[n + 1]

WordChars == Letters \cup {"0", "1", "2", "3", "4", "5", "6", "7", "8", "9", "_"}

RECURSIVE LeadingWord(_)
LeadingWord(s) ==
    IF Len(s) > 0 /\ s[1] \in WordChars
    THEN <<s[1]>> \o LeadingWord(Tail(s))
    ELSE <<>>

\* re.search(p + r"\s+(\w+)", s): group 1 of the first match, or None
SearchWordAfter(s, p) ==
    LET after(i) == SubSeq(s, i + Len(p), Len(s))
        hits == {i \in 1..(Len(s) - Len(p) + 1) :
                    /\ SubSeq(s, i, i + Len(p) - 1) = p
                    /\ Len(after(i)) > 0
                    /\ after(i)[1] \in Whitespace
                    /\ LeadingWord(LStripChars(after(i), Whitespace)) # <<>>}
    IN IF hits = {} THEN PyNone
       ELSE PyStr(LeadingWord(LStripChars(after(CHOOSE i \in hits : \A j \in hits : i <= j),
                                          Whitespace)))

STR_INTO == <<" ", "I", "N", "T", "O">>

STR_FROM == <<"F", "R", "O", "M">>

\* extract_table_name, lines 753-781
extract_table_name(sql) ==
    LET search(u) ==
            IF StartsWith(u, STR_INSERT \o STR_INTO)
            THEN SearchWordAfter(u, STR_INSERT \o STR_INTO)
            ELSE IF StartsWith(u, STR_UPDATE)
            THEN SearchWordAfter(u, STR_UPDATE)
            ELSE IF StartsWith(u, STR_DELETE \o <<" ">> \o STR_FROM)
            THEN SearchWordAfter(u, STR_DELETE \o <<" ">> \o STR_FROM)
            ELSE IF StartsWith(u, STR_SELECT)
            THEN SearchWordAfter(u, STR_FROM)
            ELSE PyNone
    IN search(Upper(StripChars(sql, Whitespace)))

\* f"SELECT * FROM {table_name} LIMIT 100;", line 739
refresh_sql(table_name) ==
    STR_SELECT \o <<" ", "*", " ">> \o STR_FROM \o <<" ">> \o table_name
        \o <<" ", "L", "I", "M", "I", "T", " ", "1", "0", "0", ";">>

\* a reversal that is given the kind of the entry it reverses
get_reversed_operation_type_Same(op_type) == op_type

\* get_reversed_operation_type, lines 1398-1408
get_reversed_operation_type(op_type) ==
    IF op_type = STR_INSERT THEN STR_DELETE
    ELSE IF op_type = STR_DELETE THEN STR_INSERT
    ELSE IF op_type = STR_UPDATE THEN STR_UPDATE
    ELSE IF op_type = STR_CREATE THEN STR_DROP
    ELSE IF op_type = STR_DROP THEN STR_CREATE
    ELSE IF op_type = STR_ALTER THEN STR_ALTER
    ELSE STR_UNKNOWN

-----------------------------------------------------------------------------
(* MainWindow and HistoryDialog: the handlers.  What the environment does  *)
(* during a handler is its argument e: e.o and e.n are how the statement's *)
(* cursor.execute ends and the rows it finds, e.oc how the commit ends,    *)
(* e.io whether the history file can be written, e.o2 how the refreshing   *)
(* SELECT ends, e.ts the clock.                                            *)

\* execute_sql_query, lines 531-608
execute_sql_query(hs, d, f, sql_query, natural_query, add_to_history, e) ==
    LET empty == Operation(e.ts, STR_SELECT, sql_query, natural_query, 0,
                           PyStr(<<"query succeeded, no result">>), PyNone)
        rows(n) == Operation(e.ts, STR_SELECT, sql_query, natural_query, n,
                             PyStr(<<"query succeeded, returned ", Str(n), " rows">>),
                             PyNone)
        display(results) ==
            IF results.kind = "AttributeError"
            THEN UiOut(hs, results.d, results.calls, f, "critical:exception")
            ELSE IF results.kind = "None"
            THEN UiOut(hs, results.d, results.calls, f, "critical:query")
            ELSE IF results.rows = 0
            THEN UiOut(IF add_to_history THEN added(hs, empty) ELSE hs,
                       results.d, results.calls, f, "information:empty")
            ELSE UiOut(IF add_to_history THEN added(hs, rows(results.rows)) ELSE hs,
                       results.d, results.calls, f, "table")
    IN display(db_execute_query(d, sql_query, e.o, e.n))

\* a success flag that is set whatever execute_modification returned
success_Always(done) == TRUE

\* success, of "success, result = self.db.execute_modification(sql)", line 687
success(done) == done.kind = "True"

\* execute_modification_query, lines 673-751
execute_modification_query(hs, d, f, sql, natural_query, operation_type, rollback_sql, add_to_history, e) ==
    LET op(affected_rows) ==
            Operation(e.ts, operation_type, sql, natural_query, affected_rows,
                      PyStr(<<"succeeded, affected ", Str(affected_rows), " rows">>),
                      rollback_sql)
        refreshed(done, hs1, f1, results) ==
            UiOut(hs1, results.d, done.calls \o results.calls, f1, "information:modified")
        saved(done, hs1, f1, table_name) ==
            IF operation_type \in {STR_INSERT, STR_UPDATE, STR_DELETE} /\ Truthy(table_name)
            THEN refreshed(done, hs1, f1,
                           db_execute_query(done.d, refresh_sql(table_name.s), e.o2, 0))
            ELSE UiOut(hs1, done.d, done.calls, f1, "information:modified")
        recorded(done, hs1) ==
            saved(done, hs1,
                  IF add_to_history /\ e.io THEN FileOf("array", JsonDump(hs1.history)) ELSE f,
                  extract_table_name(sql))
        returned(done) ==
            IF ~success(done)
            THEN UiOut(hs, done.d, done.calls, f, "critical:modification")
            ELSE recorded(done, IF add_to_history THEN added(hs, op(done.rows)) ELSE hs)
    IN returned(db_execute_modification(d, sql, e.o, e.oc))

\* MainWindow.execute_query, lines 488-529: configured is whether an
\* openai_handler is set, schema_info whether get_schema_info found tables,
\* sql_query what natural_to_sql returned
execute_query(configured, natural_query, schema_info, sql_query, e) ==
    LET hs == Hist(history, current_index)
        quiet(shown) == UiOut(hs, Session, <<>>, file, shown)
    IN IF ~configured THEN quiet("warning")
       ELSE IF natural_query = <<>> THEN quiet("warning")
       ELSE IF ~is_connected(Session) THEN quiet("warning")
       ELSE IF ~schema_info THEN quiet("warning")
       ELSE IF ~Truthy(sql_query) THEN quiet("critical:translation")
       ELSE execute_sql_query(hs, Session, file, sql_query.s, natural_query, TRUE, e)

\* MainWindow.execute_modification, lines 610-671: sql_result is what
\* natural_to_modify_sql returned, reply the answer to the confirmation; an
\* operation_type that is no str has no upper() and ends in the handler's
\* except clause
execute_modification(configured, natural_query, schema_info, sql_result, reply, e) ==
    LET hs == Hist(history, current_index)
        quiet(shown) == UiOut(hs, Session, <<>>, file, shown)
        operation_type == Upper(sql_result.operation_type.s)
    IN IF ~configured THEN quiet("warning")
       ELSE IF natural_query = <<>> THEN quiet("warning")
       ELSE IF ~is_connected(Session) THEN quiet("warning")
       ELSE IF ~schema_info THEN quiet("warning")
       ELSE IF sql_result = PyNone THEN quiet("critical:translation")
       ELSE IF sql_result.operation_type.py # "str" THEN quiet("critical:exception")
       ELSE IF operation_type \notin ALLOWED THEN quiet("warning:unsupported")
       ELSE IF ~reply THEN quiet("cancelled")
       ELSE execute_modification_query(hs, Session, file, sql_result.sql, natural_query,
                                       operation_type, sql_result.rollback_sql, TRUE, e)

\* an undo that also runs the rollback_sql of the entry it steps back from
undo_operation_Reverting ==
    LET operation == history[current_index + 1]
        reverted(done) ==
            UiOut(Hist(history, current_index - 1), done.d, done.calls, file, "information:undo")
    IN IF ~can_undo
       THEN UiOut(Hist(history, current_index), Session, <<>>, file, "return")
       ELSE IF Truthy(operation.rollback_sql)
       THEN reverted(db_execute_modification(Session, operation.rollback_sql.s, "ok", "ok"))
       ELSE UiOut(Hist(history, current_index - 1), Session, <<>>, file, "information:undo")

\* undo_operation, lines 447-461
undo_operation ==
    IF ~can_undo
    THEN UiOut(Hist(history, current_index), Session, <<>>, file, "return")
    ELSE UiOut(Hist(history, current_index - 1), Session, <<>>, file, "information:undo")

\* redo_operation, lines 463-486
redo_operation(e) ==
    LET operation == history[current_index + 2]
        hs == Hist(history, current_index + 1)
        op_type == Upper(operation.operation_type)
    IN IF ~can_redo
       THEN UiOut(Hist(history, current_index), Session, <<>>, file, "return")
       ELSE IF op_type = STR_SELECT
       THEN execute_sql_query(hs, Session, file, operation.sql, operation.natural_query,
                              FALSE, e)
       ELSE execute_modification_query(hs, Session, file, operation.sql,
                                       operation.natural_query, op_type, PyNone, FALSE, e)

\* HistoryDialog.replay_operation, lines 1354-1371, on the selected row
replay_operation(row, e) ==
    LET selected_operation == history[row]
        hs == Hist(history, current_index)
        op_type == Upper(selected_operation.operation_type)
    IN IF op_type = STR_SELECT
       THEN execute_sql_query(hs, Session, file, selected_operation.sql,
                              selected_operation.natural_query, TRUE, e)
       ELSE execute_modification_query(hs, Session, file, selected_operation.sql,
                                       selected_operation.natural_query, op_type, PyNone,
                                       TRUE, e)

\* the prefix of line 1392
UNDO_PREFIX == <<"undo: ">>

\* HistoryDialog.revert_operation, lines 1373-1396, on the selected row
revert_operation(row, reply, e) ==
    LET selected_operation == history[row]
        hs == Hist(history, current_index)
        rollback_sql == selected_operation.rollback_sql
        op_type == Upper(selected_operation.operation_type)
    IN IF ~Truthy(rollback_sql)
       THEN UiOut(hs, Session, <<>>, file, "warning:rollback")
       ELSE IF ~reply
       THEN UiOut(hs, Session, <<>>, file, "return")
       ELSE execute_modification_query(hs, Session, file, rollback_sql.s,
                                       UNDO_PREFIX \o selected_operation.natural_query,
                                       get_reversed_operation_type(op_type), PyNone, TRUE, e)

\* connect_database, lines 406-423: filled is whether the form is filled in
connect_database(filled, ok) ==
    LET hs == Hist(history, current_index)
    IN IF ~filled THEN UiOut(hs, Session, <<>>, file, "warning:form")
       ELSE IF ok THEN UiOut(hs, Db("open", db_committed, {}), <<>>, file, "information:connected")
       ELSE UiOut(hs, Session, <<>>, file, "critical:connection")

\* MainWindow.__init__, lines 25-36, of a new process: the session of the old
\* one is gone, the log is what load_from_file makes of the file
MainWindow(io_ok) ==
    LET items == JsonLoad(file.items)
    IN IF file.kind = "array" /\ io_ok
       THEN UiOut(Hist(items, Len(items) - 1), Db("None", db_committed, {}), <<>>, file,
                  "loaded")
       ELSE UiOut(Hist(<<>>, -1), Db("None", db_committed, {}), <<>>, file, "empty")

-----------------------------------------------------------------------------
(* The program: one window, its history and its database connection.       *)

\* OperationHistory() as MainWindow constructs it, line 56
DefaultMaxHistory == 100

\* the longest log the model lets the window reach
MaxLen == 2

\* what natural_to_sql may return for a request
Translated == {PyNone, PyStr(SQL_SELECT)}

\* a write with its reversal, as natural_to_modify_sql returns it
D_INSERT ==
    [operation_type |-> PyStr(<<"i", "n", "s", "e", "r", "t">>), sql |-> SQL_INSERT,
     rollback_sql |-> PyStr(SQL_DELETE)]

\* a read where a write was asked for
D_SELECT ==
    [operation_type |-> PyStr(STR_SELECT), sql |-> SQL_SELECT, rollback_sql |-> PyStr(<<>>)]

\* a write the translator gave an empty reversal for
D_DELETE ==
    [operation_type |-> PyStr(STR_DELETE), sql |-> SQL_DELETE, rollback_sql |-> PyStr(<<>>)]

\* what natural_to_modify_sql may return
Descriptors == {PyNone, D_INSERT, D_SELECT, D_DELETE}

Form(configured, natural_query, schema_info) ==
    [configured |-> configured, natural_query |-> natural_query, schema_info |-> schema_info]

\* the window when a request cannot be made: no API, no text, no schema
BadForms == {Form(FALSE, NQ, TRUE), Form(TRUE, <<>>, TRUE), Form(TRUE, NQ, FALSE)}

GoodForm == Form(TRUE, NQ, TRUE)

Env(o, n, oc, io, o2, ts) == [o |-> o, n |-> n, oc |-> oc, io |-> io, o2 |-> o2, ts |-> ts]

\* what can happen around a statement on the read path: the server rejects
\* it, or it finds n rows (the session ends between handlers, see SessionLost)
ReadEnvs ==
    {Env("error", 0, "ok", TRUE, "ok", ts) : ts \in Timestamps}
    \cup {Env("ok", n, "ok", TRUE, "ok", ts) : n \in RowCounts, ts \in Timestamps}

\* what can happen around a statement on the write path: the statement fails,
\* the commit fails, or both succeed and the refreshing SELECT succeeds or
\* not; the history file can be written (SpecHistory has the write that fails)
WriteEnvs ==
    {Env("error", 1, "ok", TRUE, "ok", ts) : ts \in Timestamps}
    \cup {Env("ok", 1, "error", TRUE, "ok", ts) : ts \in Timestamps}
    \cup {Env("ok", 1, "ok", TRUE, o2, ts) : o2 \in {"ok", "error"}, ts \in Timestamps}

\* the handler fn ran on the arguments a and left u
HandledOn(fn, a, u) ==
    /\ history' = u.hs.history
    /\ current_index' = u.hs.current_index
    /\ file' = u.file
    /\ connection' = u.d.connection
    /\ db_committed' = u.d.db_committed
    /\ db_txn' = u.d.db_txn
    /\ calls' = u.calls
    /\ ret' = Ret(fn, u.shown, <<>>)
    /\ pre' = [fn |-> "", kind |-> "", len |-> Len(history), index |-> current_index]
    /\ args' = a
    /\ UNCHANGED <<history_type, max_history>>

\* the handler fn ran and left u
Handled(fn, u) == HandledOn(fn, NoArgs, u)

\* the log has room for one more entry after the cursor
Room == Len(Truncate(history, current_index)) < MaxLen

Init ==
    /\ history = <<>>
    /\ history_type = "list"
    /\ current_index = -1
    /\ max_history = DefaultMaxHistory
    /\ file = FileOf("missing", <<>>)
    /\ connection = "None"
    /\ db_committed = {}
    /\ db_txn = {}
    /\ calls = <<>>
    /\ ret = Ret("__init__", "empty", <<>>)
    /\ pre = [fn |-> "", kind |-> "", len |-> 0, index |-> -1]
    /\ args = NoArgs

ConnectDatabase ==
    \E filled \in BOOLEAN, ok \in BOOLEAN :
        Handled("connect_database", connect_database(filled, ok))

\* the server or the network ends the session while the window is idle
SessionLost ==
    /\ connection = "open"
    /\ Handled("", UiOut(Hist(history, current_index), Lost(Session), <<>>, file, ""))

\* nothing goes wrong
Calm == Env("ok", 1, "ok", TRUE, "ok", CHOOSE ts \in Timestamps : TRUE)

\* what can happen around the statement of a history entry, which goes the
\* read path or the write path by its recorded kind
EnvsOf(operation) ==
    IF Upper(operation.operation_type) = STR_SELECT THEN ReadEnvs ELSE WriteEnvs

\* a request on the read path: one the form does not allow, one the
\* translator fails, or one that reaches the database
ExecuteQuery ==
    /\ Room
    /\ \/ \E form \in BadForms :
             Handled("execute_query",
                     execute_query(form.configured, form.natural_query, form.schema_info,
                                   PyNone, Calm))
       \/ \E sql_query \in Translated :
             \E e \in IF Truthy(sql_query) THEN ReadEnvs ELSE {Calm} :
                Handled("execute_query",
                        execute_query(GoodForm.configured, GoodForm.natural_query,
                                      GoodForm.schema_info, sql_query, e))

\* a request on the write path
ExecuteModification ==
    /\ Room
    /\ \/ \E form \in BadForms :
             Handled("execute_modification",
                     execute_modification(form.configured, form.natural_query,
                                          form.schema_info, PyNone, FALSE, Calm))
       \/ \E sql_result \in Descriptors, reply \in BOOLEAN :
             \E e \in IF sql_result # PyNone /\ reply THEN WriteEnvs ELSE {Calm} :
                Handled("execute_modification",
                        execute_modification(GoodForm.configured, GoodForm.natural_query,
                                             GoodForm.schema_info, sql_result, reply, e))

UndoOperation == Handled("undo_operation", undo_operation)

RedoOperation ==
    \E e \in IF can_redo THEN EnvsOf(history[current_index + 2]) ELSE {Calm} :
        Handled("redo_operation", redo_operation(e))

ReplayOperation ==
    /\ Room
    /\ \E row \in 1..Len(history) :
          \E e \in EnvsOf(history[row]) :
             Handled("replay_operation", replay_operation(row, e))

RevertOperation ==
    /\ Room
    /\ \E row \in 1..Len(history), reply \in BOOLEAN :
          \E e \in IF reply THEN WriteEnvs ELSE {Calm} :
             HandledOn("revert_operation", Args(<<>>, row), revert_operation(row, reply, e))

\* the window is closed and the program started again
Restart == \E io_ok \in BOOLEAN : Handled("__init__", MainWindow(io_ok))

Next ==
    \/ ConnectDatabase
    \/ SessionLost
    \/ ExecuteQuery
    \/ ExecuteModification
    \/ UndoOperation
    \/ RedoOperation
    \/ ReplayOperation
    \/ RevertOperation
    \/ Restart

Spec == Init /\ [][Next]_vars

-----------------------------------------------------------------------------
(* The two requests with the translator in them: the model's reply is the  *)
(* text of args.sql_list[1], and one request is made on it.                *)

\* a translator method returned r
Translation(fn, r) ==
    /\ ret' = Ret(fn, IF r = PyNone THEN "None" ELSE IF "py" \in DOMAIN r THEN "str" ELSE "dict",
                  IF r = PyNone THEN <<>> ELSE <<r>>)
    /\ Called(args)
    /\ UNCHANGED <<histvars, dbvars>>

InitTranslator ==
    /\ history = <<>>
    /\ history_type = "list"
    /\ current_index = -1
    /\ max_history = DefaultMaxHistory
    /\ file = FileOf("missing", <<>>)
    /\ connection = "None"
    /\ db_committed = {}
    /\ db_txn = {}
    /\ calls = <<>>
    /\ ret = Ret("__init__", "empty", <<>>)
    /\ pre = [fn |-> "", kind |-> "", len |-> 0, index |-> -1]
    /\ args \in {Args(<<r>>, k) : r \in ReadReplies \cup {EX_REPLY}, k \in {0}}
                \cup {Args(<<r>>, k) : r \in WriteReplies, k \in {1}}

\* the window connects to the database
Connected ==
    /\ connection = "None"
    /\ HandledOn("connect_database", args, connect_database(TRUE, TRUE))

\* sql_query = self.openai_handler.natural_to_sql(natural_query, schema_info)
NaturalToSql ==
    /\ args.k = 0
    /\ Translation("natural_to_sql", natural_to_sql(PyStr(Text)))

\* sql_result = self.openai_handler.natural_to_modify_sql(natural_query, schema_info)
NaturalToModifySql ==
    /\ args.k = 1
    /\ Translation("natural_to_modify_sql", natural_to_modify_sql(PyStr(Text)))

\* a request on the read path, from the reply to the log
TranslatedQuery ==
    /\ args.k = 0
    /\ history = <<>>
    /\ \E e \in ReadEnvs :
          HandledOn("execute_query", args,
                    execute_query(GoodForm.configured, GoodForm.natural_query,
                                  GoodForm.schema_info, natural_to_sql(PyStr(Text)), e))

\* a request on the write path, from the reply to the log
TranslatedModification ==
    /\ args.k = 1
    /\ history = <<>>
    /\ \E reply \in BOOLEAN, e \in WriteEnvs :
          HandledOn("execute_modification", args,
                    execute_modification(GoodForm.configured, GoodForm.natural_query,
                                         GoodForm.schema_info,
                                         natural_to_modify_sql(PyStr(Text)), reply, e))

NextTranslator ==
    \/ Connected
    \/ NaturalToSql
    \/ NaturalToModifySql
    \/ TranslatedQuery
    \/ TranslatedModification

SpecTranslator == InitTranslator /\ [][NextTranslator]_vars

-----------------------------------------------------------------------------
(* Claims about OperationHistory.                                          *)

\* the sequence add_operation leaves when nothing is evicted: the entries up
\* to the cursor, then the new one
KeptThenNew(h, ci, op) == Append(SubSeq(h, 1, IF ci < Len(h) - 1 THEN ci + 1 ELSE Len(h)), op)

C2_CursorInvariant ==
    /\ -1 <= current_index
    /\ current_index <= Len(history) - 1
    /\ (Len(history) = 0 => current_index = -1)

\* C3: the length never exceeds max_history, and an append that would exceed
\* it evicts exactly the front entry, the others keeping their order.
C3_CapacityFifo ==
    [][/\ Len(history') <= max_history'
       /\ ret'.fn = "add_operation" =>
            LET kept == KeptThenNew(history, current_index, ret'.ops[1])
            IN history' = IF Len(kept) > max_history THEN Tail(kept) ELSE kept]_vars

\* C3 witness: with max_history = 2, a third append on a full log
C3_Witness ==
    /\ max_history = 2
    /\ ret.fn = "add_operation" /\ ret.kind = "entry"
    /\ pre.len = 2 /\ pre.index = 1
    /\ Len(history) = 2 /\ current_index = 1 /\ history[2] = ret.ops[1]

\* what C4 promises after add_operation
AddPostcondition ==
    /\ ret'.kind = "entry"
    /\ current_index' = Len(history') - 1
    /\ current_index' >= 0
    /\ history'[current_index' + 1] = ret'.ops[1]
    /\ can_undo'
    /\ ~can_redo'

\* C4 as stated: for every max_history, after add_operation the cursor is at
\* the tail, on the entry just added; can_undo() holds and can_redo() does not.
C4_AddPostconditionAnyCapacity ==
    [][ret'.fn = "add_operation" => AddPostcondition]_vars

\* C4 amended: the same for every max_history >= 1.
C4_AddPostcondition ==
    [][(ret'.fn = "add_operation" /\ max_history >= 1) => AddPostcondition]_vars

\* C4 witness: an append on a full log of capacity >= 1, the cursor on the
\* new tail
C4_Witness ==
    /\ max_history >= 1
    /\ ret.fn = "add_operation" /\ ret.kind = "entry"
    /\ pre.len = max_history
    /\ current_index = Len(history) - 1 /\ history[current_index + 1] = ret.ops[1]

\* C5: can_undo() is current_index >= 0; undo without it returns None and
\* changes nothing; undo with it returns the entry at the cursor, moves the
\* cursor back by one and leaves the sequence alone.
C5_Undo ==
    [][/\ can_undo <=> current_index >= 0
       /\ ret'.fn = "get_previous_operation" =>
            /\ history' = history
            /\ IF current_index >= 0
               THEN /\ ret'.kind = "entry"
                    /\ ret'.ops = <<history[current_index + 1]>>
                    /\ current_index' = current_index - 1
               ELSE /\ ret'.kind = "None"
                    /\ current_index' = current_index]_vars

\* C5 witness: an undo that returned an entry and moved the cursor back
C5_Witness ==
    /\ ret.fn = "get_previous_operation" /\ ret.kind = "entry"
    /\ pre.index >= 0 /\ current_index = pre.index - 1
    /\ ret.ops = <<history[pre.index + 1]>>

\* C6: can_redo() is current_index < len(history)-1; redo without it returns
\* None and changes nothing; redo with it moves the cursor forward by one,
\* returns the entry there and leaves the sequence alone.
C6_Redo ==
    [][/\ can_redo <=> current_index < Len(history) - 1
       /\ ret'.fn = "get_next_operation" =>
            /\ history' = history
            /\ IF current_index < Len(history) - 1
               THEN /\ ret'.kind = "entry"
                    /\ current_index' = current_index + 1
                    /\ ret'.ops = <<history[current_index' + 1]>>
               ELSE /\ ret'.kind = "None"
                    /\ current_index' = current_index]_vars

\* C6 witness: a redo that moved the cursor forward and returned the entry
C6_Witness ==
    /\ ret.fn = "get_next_operation" /\ ret.kind = "entry"
    /\ pre.index < pre.len - 1 /\ current_index = pre.index + 1
    /\ ret.ops = <<history[current_index + 1]>>

\* a load_from_file step taken right after a save_to_file that returned True
LoadAfterSave ==
    /\ ret.fn = "save_to_file" /\ ret.kind = "True"
    /\ ret'.fn = "load_from_file"

\* C7 as stated: save_to_file then load_from_file reproduces the sequence and
\* the cursor position.
C7_RoundTripKeepsCursor ==
    [][(LoadAfterSave /\ ret'.kind = "True")
        => (history' = history /\ current_index' = current_index)]_vars

\* C7 amended: save_to_file then a load_from_file that returns True
\* reproduces the sequence, and puts the cursor on the last entry (-1 when
\* there is none).
C7_RoundTrip ==
    [][(LoadAfterSave /\ ret'.kind = "True")
        => (history' = history /\ current_index' = Len(history) - 1)]_vars

\* C7 witness: a load that followed a save made with the cursor before the
\* tail
C7_Witness ==
    /\ ret.fn = "load_from_file" /\ ret.kind = "True"
    /\ pre.fn = "save_to_file" /\ pre.kind = "True"
    /\ pre.len >= 2 /\ pre.index < pre.len - 1
    /\ Len(history) = pre.len /\ current_index = pre.len - 1

C15_FailuresLeaveEmpty ==
    [][/\ (ret'.fn = "load_from_file" /\ ret'.kind # "True") =>
             /\ ret'.kind = "False"
             /\ history' = <<>>
             /\ current_index' = -1
       /\ (ret'.fn = "save_to_file" /\ ret'.kind # "True") => ret'.kind = "False"]_vars

-----------------------------------------------------------------------------
(* Claims about DatabaseConnection.                                        *)

\* C10: when execute_transaction is handed a non-empty list on a connected
\* session and the statement at position k fails, it returns failure, the
\* open transaction is empty afterwards and the durable state is what it was
\* (so neither a read nor a later commit shows a statement of the batch);
\* and a commit follows only the successful execution of every statement.
C10_TransactionAtomicity ==
    [][(ret'.fn = "execute_transaction" /\ args'.sql_list # <<>> /\ connection = "open") =>
         LET sql_list == args'.sql_list
         IN /\ args'.k \in 1..Len(sql_list) =>
                 /\ ret'.kind = "False"
                 /\ db_txn' = {}
                 /\ db_committed' = db_committed
                 /\ \A i \in 1..Len(calls') : calls'[i].op # "commit"
            /\ \A i \in 1..Len(calls') :
                 calls'[i].op = "commit" =>
                    /\ i = Len(sql_list) + 1
                    /\ \A j \in 1..Len(sql_list) :
                         calls'[j] = Call("execute", sql_list[j], TRUE)
            /\ db_committed' # db_committed => ret'.kind = "True"]_vars

\* a batch whose first statement changed data and whose second failed was
\* rolled back
C10_Witness ==
    /\ ret.fn = "execute_transaction"
    /\ ret.kind = "False"
    /\ Len(calls) = 3
    /\ calls[1].op = "execute" /\ calls[1].ok /\ ChangesData(calls[1].sql)
    /\ calls[2].op = "execute" /\ ~calls[2].ok
    /\ calls[3].op = "rollback"
    /\ db_txn = {}
    /\ calls[1].sql \notin db_committed

\* the kind execute_modification finds in a statement, lines 271-272
KindOfWrite(sql) == detect_operation_type(validate_sql(sql))

\* C11: execute_modification handed a statement whose sanitized text is a
\* SELECT or of UNKNOWN kind returns failure, makes no driver call (no
\* execute, no commit, no rollback) and leaves the session, its open
\* transaction and the durable state as they were.
C11_WriteAllowList ==
    [][(/\ ret'.fn = "execute_modification"
        /\ KindOfWrite(args'.sql_list[1]) \in {STR_SELECT, STR_UNKNOWN}) =>
          /\ ret'.kind = "False"
          /\ calls' = <<>>
          /\ connection' = connection
          /\ db_committed' = db_committed
          /\ db_txn' = db_txn]_vars

\* a SELECT and a statement of unknown kind were each turned away on a
\* connected session
C11_Witness ==
    /\ ret.fn = "execute_modification"
    /\ connection = "open"
    /\ args.sql_list[1] = SQL_VACUUM
    /\ KindOfWrite(args.sql_list[1]) = STR_UNKNOWN
    /\ ret.kind = "False"
    /\ ret.ops[1].msg = "unsupported operation type"
    /\ calls = <<>>

\* C12: on a connected session, execute_modification handed an allowed
\* statement either executes it, commits once and returns (True, rowcount),
\* the statement then being durable; or, the execute or the commit failing,
\* returns (False, message) with no commit that succeeded, a rollback as its
\* last call while the session is still there, an empty open transaction and
\* the durable state as it was.
C12_CommitOrRollback ==
    [][(/\ ret'.fn = "execute_modification"
        /\ connection = "open"
        /\ KindOfWrite(args'.sql_list[1])
              \in {STR_INSERT, STR_UPDATE, STR_DELETE, STR_CREATE, STR_ALTER, STR_DROP}) =>
          LET s == validate_sql(args'.sql_list[1])
              commits == {i \in 1..Len(calls') : calls'[i].op = "commit"}
          IN \/ /\ ret'.kind = "True"
                /\ ret'.ops[1].rows = Rowcount
                /\ calls' = <<Call("execute", s, TRUE), Call("commit", <<>>, TRUE)>>
                /\ db_committed' = db_committed \cup db_txn \cup {s}
                /\ db_txn' = {}
             \/ /\ ret'.kind = "False"
                /\ ret'.ops[1].msg # ""
                /\ calls' # <<>>
                /\ calls'[1].op = "execute" /\ calls'[1].sql = s
                /\ \A i \in commits : ~calls'[i].ok /\ calls'[1].ok
                /\ Cardinality(commits) <= 1
                /\ connection' = "open" => calls'[Len(calls')] = Call("rollback", <<>>, TRUE)
                /\ db_txn' = {}
                /\ db_committed' = db_committed]_vars

\* a write whose commit failed was rolled back and is not durable
C12_Witness ==
    /\ ret.fn = "execute_modification"
    /\ ret.kind = "False"
    /\ Len(calls) = 3
    /\ calls[1] = Call("execute", SQL_INSERT, TRUE)
    /\ calls[2] = Call("commit", <<>>, FALSE)
    /\ calls[3] = Call("rollback", <<>>, TRUE)
    /\ db_txn = {}
    /\ SQL_INSERT \notin db_committed

\* C17: execute_query, execute_modification and execute_transaction hand
\* every failure back as a value, None for the read and (False, message) for
\* the other two, and raise nothing, also when the connection is None or
\* gone.
C17_FailureIsAValue ==
    /\ ret.fn = "execute_query" => ret.kind \in {"DataFrame", "None"}
    /\ ret.fn \in {"execute_modification", "execute_transaction"} =>
          /\ ret.kind \in {"True", "False"}
          /\ ret.kind = "False" => ret.ops[1].msg # ""

-----------------------------------------------------------------------------
(* Claims about validate_sql and detect_operation_type.                    *)

\* the text s holds a block comment, or the start of a line comment
HasComment(s) ==
    \/ \E i \in 1..Len(s), j \in 1..Len(s) :
          /\ i + 2 <= j /\ j + 1 <= Len(s)
          /\ SubSeq(s, i, i + 1) = <<"/", "*">>
          /\ SubSeq(s, j, j + 1) = <<"*", "/">>
    \/ \E i \in 1..(Len(s) - 1) : SubSeq(s, i, i + 1) = <<"-", "-">>

\* C18: validate_sql applied to its own result gives that result again.
C18_SanitizerIdempotent ==
    Len(args.sql_list) >= 3 => args.sql_list[3] = args.sql_list[2]

\* C19: what validate_sql makes of a non-empty text ends with one ';', not
\* with two, and holds no block comment and no line comment.
C19_SanitizerPostcondition ==
    (Len(args.sql_list) >= 2 /\ args.sql_list[1] # <<>>) =>
        /\ EndsWith(args.sql_list[2], <<";">>)
        /\ ~EndsWith(args.sql_list[2], <<";", ";">>)
        /\ ~HasComment(args.sql_list[2])

\* C20: detect_operation_type returns one of the eight kinds; it returns
\* SELECT, INSERT, UPDATE, DELETE, CREATE, ALTER or DROP exactly when the
\* text, its surrounding whitespace stripped and in upper case, starts with
\* SELECT, INSERT, UPDATE, DELETE, CREATE TABLE, ALTER TABLE or DROP TABLE,
\* and UNKNOWN for every other text; '  select * from t' gives SELECT,
\* 'drop table t;' gives DROP and 'vacuum;' gives UNKNOWN.
C20_Classification ==
    ret.fn = "detect_operation_type" =>
        LET judged(u, kind) ==
                /\ kind \in {STR_SELECT, STR_INSERT, STR_UPDATE, STR_DELETE, STR_CREATE,
                              STR_ALTER, STR_DROP, STR_UNKNOWN}
                /\ kind = STR_SELECT <=> StartsWith(u, <<"S", "E", "L", "E", "C", "T">>)
                /\ kind = STR_INSERT <=> StartsWith(u, <<"I", "N", "S", "E", "R", "T">>)
                /\ kind = STR_UPDATE <=> StartsWith(u, <<"U", "P", "D", "A", "T", "E">>)
                /\ kind = STR_DELETE <=> StartsWith(u, <<"D", "E", "L", "E", "T", "E">>)
                /\ kind = STR_CREATE <=>
                      StartsWith(u, <<"C", "R", "E", "A", "T", "E", " ", "T", "A", "B", "L", "E">>)
                /\ kind = STR_ALTER <=>
                      StartsWith(u, <<"A", "L", "T", "E", "R", " ", "T", "A", "B", "L", "E">>)
                /\ kind = STR_DROP <=>
                      StartsWith(u, <<"D", "R", "O", "P", " ", "T", "A", "B", "L", "E">>)
                /\ Text = EX_SELECT => kind = STR_SELECT
                /\ Text = EX_DROP => kind = STR_DROP
                /\ Text = EX_VACUUM => kind = STR_UNKNOWN
        IN judged(Upper(StripChars(Text, Whitespace)), ret.ops[1])

\* '  select * from t' was classified as SELECT
C20_Witness ==
    /\ ret.fn = "detect_operation_type"
    /\ Text = <<" ", " ", "s", "e", "l", "e", "c", "t", " ", "*", " ", "f", "r", "o", "m", " ", "t">>
    /\ ret.ops[1] = <<"S", "E", "L", "E", "C", "T">>

-----------------------------------------------------------------------------
(* Claims about the window's pipelines.                                    *)

\* the handler showed that the statement it was about was executed
Succeeded == ret.kind \in {"information:empty", "table", "information:modified"}

\* the handler showed that the request failed or was given up
Failed ==
    ret.kind \in {"critical:translation", "cancelled", "warning:unsupported",
                  "critical:query", "critical:modification", "critical:exception"}

\* the step put one entry, for the statement it executed first, behind the
\* entries up to the cursor, and the cursor on it
AppendedExecuted ==
    LET kept == Truncate(history, current_index)
    IN /\ Len(history') = Len(kept) + 1
       /\ SubSeq(history', 1, Len(kept)) = kept
       /\ current_index' = Len(kept)
       /\ calls' # <<>>
       /\ calls'[1] = Call("execute", validate_sql(history'[Len(kept) + 1].sql), TRUE)

\* the step executed the statement of the entry after the cursor and moved
\* the cursor onto it, the entries staying what they were
ReexecutedNext ==
    /\ history' = history
    /\ current_index' = current_index + 1
    /\ calls' # <<>>
    /\ calls'[1] = Call("execute", validate_sql(history[current_index + 2].sql), TRUE)

\* C8 as stated: every statement a handler executed successfully, by a
\* request, a replay or a redo, is appended as a new entry behind the others.
C8_EveryExecutionAppends ==
    [][Succeeded' => AppendedExecuted]_vars

\* C8: every statement executed successfully by a request, a replay or a
\* reversal is appended as a new entry behind the entries up to the cursor,
\* in execution order and without changing them; a redo executes the entry
\* after the cursor and appends nothing; no other step of a running window
\* changes the entries.
C8_ExecutionOrder ==
    [][/\ (Succeeded' /\ ret'.fn # "redo_operation") => AppendedExecuted
       /\ (Succeeded' /\ ret'.fn = "redo_operation") => ReexecutedNext
       /\ (~Succeeded' /\ ret'.fn # "__init__") => history' = history]_vars

\* a redo has executed the write of the entry it moved onto, and the log is
\* as long as it was
C8_Witness ==
    /\ ret.fn = "redo_operation"
    /\ ret.kind = "information:modified"
    /\ calls # <<>> /\ calls[1].op = "execute" /\ calls[1].ok
    /\ pre.len = Len(history)
    /\ current_index = pre.index + 1

\* C9: an entry is appended only by a step whose statement the engine
\* executed (and, for a write, committed); a request, replay or reversal that
\* fails in translation, is declined, is of a rejected kind or fails in the
\* engine leaves the entries and the cursor as they were, and a redo that
\* fails leaves the entries as they were.
C9_NoSpeculativeRecording ==
    [][/\ (history' # history /\ ret'.fn # "__init__") =>
             /\ Succeeded'
             /\ AppendedExecuted
             /\ ret'.kind = "information:modified" =>
                   /\ Len(calls') >= 2
                   /\ calls'[2] = Call("commit", <<>>, TRUE)
       /\ (Failed' /\ ret'.fn # "redo_operation") =>
             /\ history' = history
             /\ current_index' = current_index
       /\ (Failed' /\ ret'.fn = "redo_operation") => history' = history]_vars

\* a confirmed write that the engine rejected left a log with an entry in
\* it, and its cursor, as they were
C9_Witness ==
    /\ ret.fn = "execute_modification"
    /\ ret.kind = "critical:modification"
    /\ calls # <<>> /\ calls[1].op = "execute" /\ ~calls[1].ok
    /\ Len(history) > 0
    /\ pre.len = Len(history)
    /\ pre.index = current_index

\* C13: an undo makes no driver call, so it executes neither the sql nor
\* the rollback_sql of any entry; it leaves the session, the open
\* transaction, the durable state, the entries and the history file as they
\* were; it moves the cursor back by one when there is an entry to step back
\* from and does nothing otherwise.
C13_UndoIsNavigation ==
    [][ret'.fn = "undo_operation" =>
          /\ calls' = <<>>
          /\ connection' = connection
          /\ db_committed' = db_committed
          /\ db_txn' = db_txn
          /\ history' = history
          /\ file' = file
          /\ max_history' = max_history
          /\ current_index' = (IF current_index >= 0 THEN current_index - 1
                                ELSE current_index)]_vars

\* the window stepped back from a committed write that has a rollback_sql,
\* on a connected session, and the write is still durable
C13_Witness ==
    /\ ret.fn = "undo_operation"
    /\ ret.kind = "information:undo"
    /\ connection = "open"
    /\ current_index = pre.index - 1
    /\ Truthy(history[pre.index + 1].rollback_sql)
    /\ history[pre.index + 1].sql \in db_committed
    /\ calls = <<>>

\* the kind that reverses each kind
ReversedKind ==
    [k \in {STR_INSERT, STR_DELETE, STR_UPDATE, STR_CREATE, STR_DROP, STR_ALTER} |->
        CASE k = STR_INSERT -> STR_DELETE
          [] k = STR_DELETE -> STR_INSERT
          [] k = STR_CREATE -> STR_DROP
          [] k = STR_DROP -> STR_CREATE
          [] OTHER -> k]

\* C16: reverting the selected entry of the history dialog executes the
\* entry's rollback_sql, and nothing else first, on the write path; when that
\* succeeds one new entry is added by the rules of add_operation (behind the
\* entries up to the cursor), holding the rollback_sql as its statement, the
\* original text behind the undo prefix, the reversed kind and no
\* rollback_sql of its own, the entries kept being what they were; when the
\* entry has no rollback_sql, or an empty one, no driver call is made and
\* the history, the cursor and the database are unchanged; when the
\* reversal is declined or fails the history is unchanged.
C16_ReversalIsRecorded ==
    [][ret'.fn = "revert_operation" =>
          LET selected == history[args'.k]
              rollback_sql == selected.rollback_sql
              kept == Truncate(history, current_index)
              n == Len(history')
          IN /\ ~Truthy(rollback_sql) =>
                   /\ calls' = <<>>
                   /\ history' = history
                   /\ current_index' = current_index
                   /\ connection' = connection
                   /\ db_committed' = db_committed
                   /\ db_txn' = db_txn
             /\ calls' # <<>> =>
                   /\ Truthy(rollback_sql)
                   /\ calls'[1].op = "execute"
                   /\ calls'[1].sql = validate_sql(rollback_sql.s)
             /\ ret'.kind = "information:modified" =>
                   /\ Len(calls') >= 2
                   /\ calls'[1].ok
                   /\ calls'[2] = Call("commit", <<>>, TRUE)
                   /\ n > 0
                   /\ history' = Evict(Append(kept, history'[n]), max_history)
                   /\ current_index' = n - 1
                   /\ history'[n].sql = rollback_sql.s
                   /\ history'[n].natural_query = UNDO_PREFIX \o selected.natural_query
                   /\ history'[n].operation_type = ReversedKind[Upper(selected.operation_type)]
                   /\ history'[n].rollback_sql = PyNone
                   /\ args'.k <= Len(kept) => history'[args'.k] = selected
             /\ ret'.kind # "information:modified" =>
                   /\ history' = history
                   /\ current_index' = current_index]_vars

\* the INSERT of the first entry was reversed: its DELETE was executed and
\* committed and is the second entry, and the first entry is what it was
C16_Witness ==
    /\ ret.fn = "revert_operation"
    /\ ret.kind = "information:modified"
    /\ args.k = 1
    /\ Len(history) = 2
    /\ history[1].operation_type = STR_INSERT
    /\ history[1].rollback_sql = PyStr(SQL_DELETE)
    /\ history[2].operation_type = STR_DELETE
    /\ history[2].sql = SQL_DELETE
    /\ history[2].natural_query = UNDO_PREFIX \o history[1].natural_query
    /\ calls[1] = Call("execute", SQL_DELETE, TRUE)
    /\ SQL_DELETE \in db_committed

-----------------------------------------------------------------------------
(* Claims about the translator.                                            *)

\* the model's reply of the behaviour
Reply == args.sql_list[1]

\* the reply as the translator reads it: without the white space around it
\* and without its reasoning
Visible(s) == RemoveTags(StripChars(s, Whitespace), THINK_TAGS)

\* a recognized keyword stands at i in the upper-case text u
KeywordAt(u, i) ==
    \E k \in {STR_SELECT, STR_INSERT, STR_UPDATE, STR_DELETE, STR_CREATE, STR_ALTER,
              STR_DROP, <<"S", "H", "O", "W">>, <<"U", "S", "E">>} :
        StartsWith(SubSeq(u, i, Len(u)), k)

\* the text holds a recognized keyword
HasKeyword(s) == \E i \in 1..Len(s) : KeywordAt(Upper(s), i)

\* C21: for every reply that holds a recognized keyword outside its
\* reasoning, on the first line or on a later one, natural_to_sql returns a
\* text that begins with a keyword, holds exactly one ';' and ends with it.
C21_Extraction ==
    (ret.fn = "natural_to_sql" /\ HasKeyword(Visible(Reply)))
    => /\ ret.kind = "str"
       /\ KeywordAt(Upper(ret.ops[1].s), 1)
       /\ Find(ret.ops[1].s, <<";">>, 1) = Len(ret.ops[1].s)

\* C22: for every reply that is not empty and holds no recognized keyword
\* outside its reasoning, natural_to_sql returns None, and execute_query
\* makes no call to the database and records nothing.
C22_NoSqlNoExecution ==
    (Visible(Reply) # <<>> /\ ~HasKeyword(Visible(Reply)))
    => /\ ret.fn = "natural_to_sql" => ret.kind = "None"
       /\ ret.fn = "execute_query" => calls = <<>> /\ history = <<>>

\* what json.loads makes of the reply once the reasoning and the fence
\* around it are gone
ReplyJson ==
    json_loads(StripChars(RemoveFenceClose(RemoveFenceOpen(Visible(Reply),
                                                           <<"J", "S", "O", "N">>)),
                          Whitespace))

\* the reply is a JSON object that has both mandatory fields
Complete(j) ==
    /\ j.js = "object"
    /\ KEY_OPERATION_TYPE \in DOMAIN j.fields
    /\ KEY_SQL \in DOMAIN j.fields

\* C23: natural_to_modify_sql returns a descriptor only for a reply that is
\* a JSON object with operation_type and sql, and the descriptor has the
\* operation_type of the reply; for every other reply it returns None, and
\* execute_modification then makes no call to the database, records nothing
\* and leaves the history file alone.
C23_DescriptorValidation ==
    /\ ret.fn = "natural_to_modify_sql"
       => /\ ret.kind \in {"dict", "None"}
          /\ ~Complete(ReplyJson) => ret.kind = "None"
          /\ ret.kind = "dict"
             => ret.ops[1].operation_type = PyOf(ReplyJson.fields[KEY_OPERATION_TYPE])
    /\ (ret.fn = "execute_modification" /\ ~Complete(ReplyJson))
       => /\ ret.kind \in {"warning", "critical:translation"}
          /\ calls = <<>>
          /\ history = <<>>
          /\ file = FileOf("missing", <<>>)

\* the spec's example: a reply without the sql key, and the handler shows the
\* translation error
C23_Witness ==
    /\ ret.fn = "execute_modification"
    /\ ret.kind = "critical:translation"
    /\ ReplyJson.js = "object"
    /\ DOMAIN ReplyJson.fields = {KEY_OPERATION_TYPE}

-----------------------------------------------------------------------------
(* Claims about what the read path leaves in the session.                  *)

\* C24: execute_query leaves no data change behind, neither durable nor
\* pending in the open transaction, whatever statement it is handed; and an
\* execute_modification that succeeds makes durable its own statement only.
C24_ReadPathKeepsData ==
    [][/\ ret'.fn = "execute_query"
          => db_txn' \subseteq db_txn /\ db_committed' = db_committed
       /\ (ret'.fn = "execute_modification" /\ ret'.kind = "True")
          => db_committed' \subseteq db_committed \cup {validate_sql(args'.sql_list[1])}]_vars

-----------------------------------------------------------------------------
(* Claims about redo and about the kind an entry is recorded with.         *)

\* C25: a redo whose re-execution failed, or was rejected before it ran,
\* leaves the cursor where it was before the redo.
C25_RedoCursorOnSuccessOnly ==
    (/\ ret.fn = "redo_operation"
     /\ ret.kind \in {"critical:query", "critical:modification", "critical:exception"})
    => current_index = pre.index

\* C26: every entry of the log has the kind detect_operation_type gives its
\* statement.
C26_RecordedKindMatches ==
    \A i \in 1..Len(history) :
        history[i].operation_type = detect_operation_type(history[i].sql)

-----------------------------------------------------------------------------
(* Claims about the log across undo, redo, load and restart.               *)

\* C27: an undo made where can_undo() held, followed at once by a redo,
\* returns the same entry both times and leaves the cursor and the sequence
\* as they were before the undo; likewise a redo made where can_redo() held,
\* followed at once by an undo; and every undo made where can_undo() held
\* moves the cursor back by one, so that current_index + 1 undos reach -1.
C27_UndoRedoRoundTrip ==
    [][/\ (/\ ret.fn = "get_previous_operation" /\ pre.index >= 0
           /\ ret'.fn = "get_next_operation")
          => /\ ret.kind = "entry" /\ ret'.kind = "entry"
             /\ ret'.ops = ret.ops
             /\ current_index' = pre.index
             /\ history' = history
       /\ (/\ ret.fn = "get_next_operation" /\ pre.index < pre.len - 1
           /\ ret'.fn = "get_previous_operation")
          => /\ ret.kind = "entry" /\ ret'.kind = "entry"
             /\ ret'.ops = ret.ops
             /\ current_index' = pre.index
             /\ history' = history
       /\ (ret'.fn \in {"get_previous_operation", "get_next_operation"})
          => history' = history /\ history_type' = history_type
       /\ (ret'.fn = "get_previous_operation" /\ current_index >= 0)
          => current_index' = current_index - 1]_vars

\* C28: a load_from_file that returns False leaves the sequence and the
\* cursor exactly as they were before the call.
C28_FailedLoadIsAtomic ==
    [][(ret'.fn = "load_from_file" /\ ret'.kind = "False")
       => /\ history' = history
          /\ history_type' = history_type
          /\ current_index' = current_index]_vars

\* C29: the log holds at most max_history entries after a load_from_file
\* that succeeded, or at the latest after the add_operation that follows.
C29_CapacityAfterLoad ==
    [][(ret'.fn = "add_operation" /\ ret'.kind = "entry") => Len(history') <= max_history']_vars

\* C30: after every request, replay or reversal that executed its statement
\* and appended an entry, the history file holds the entries of the log, in
\* the log's order.
C30_FileInStepWithLog ==
    (/\ ret.fn \in {"execute_query", "execute_modification", "replay_operation",
                    "revert_operation"}
     /\ ret.kind \in {"information:empty", "table", "information:modified"})
    => file = FileOf("array", JsonDump(history))

=============================================================================
